---- MODULE Spec2Model ----
(***************************************************************************)
(* Backtesting engine of the Upbit MCP server (src/tools/backtesting.py):  *)
(* the orchestrator `backtesting`, the paginating collector                *)
(* `collect_candle_data` over `get_candles` (src/tools/get_candles.py),    *)
(* the five strategy simulators and the indicator functions they use.      *)
(*                                                                         *)
(* Numbers.  Python floats are modelled as exact rationals <<n, d>> in     *)
(* lowest terms with d > 0; NaN is <<0, 0>>.  Rounding, overflow and       *)
(* underflow of IEEE doubles are outside the model.                        *)
(* Indices.  The source indexes arrays from 0; At(s, i) reads s[i] in the  *)
(* source's numbering.                                                     *)
(* Time.  A candle's candle_date_time_kst is a tick; a day has             *)
(* TicksPerDay ticks, candles open at the first TicksPerDay - 1 of them    *)
(* and the last tick of a day is its 23:59:59.  String order of ISO        *)
(* timestamps is the order of ticks, and the [:10] date prefix of a        *)
(* timestamp is DateOf(tick).                                              *)
(***************************************************************************)
EXTENDS Integers, Sequences, FiniteSets, TLC

(***************************************************************************)
(* Bounds of the model                                                     *)
(***************************************************************************)
\* closes are drawn from 1..MaxPrice
MaxPrice == 2
\* longest candle series handed to a simulator on its own
MaxLen == 6
\* the collector's ceiling on page fetches (50 in the source, scaled down)
MaxCalls == 4
\* candles per full page (200 in the source, scaled down)
PageSize == 2
\* equity curves handed to the drawdown functions on their own: at most
\* MaxCurveLen points with values in 1..MaxValue
MaxCurveLen == 5
MaxValue == 3
\* longest trade ledger handed to calculate_trade_metrics on its own
MaxTrades == 4
\* sawtooth equity curves: at most MaxTeeth declines, each recovered by a
\* new peak
MaxTeeth == 6

(***************************************************************************)
(* Exact rational arithmetic                                               *)
(***************************************************************************)
Abs(x) == IF x < 0 THEN -x ELSE x

RECURSIVE GCD(_, _)
GCD(a, b) == IF b = 0 THEN a ELSE GCD(b, a % b)

NaN == <<0, 0>>
IsNaN(x) == x[2] = 0

Norm(n, d) ==
    IF d = 0 THEN NaN
    ELSE LET g == GCD(Abs(n), Abs(d))
             s == IF d < 0 THEN -1 ELSE 1
         IN  <<s * (n \div g), s * (d \div g)>>

R(n) == <<n, 1>>
Zero == R(0)
One == R(1)

RAdd(x, y) == IF IsNaN(x) \/ IsNaN(y) THEN NaN
              ELSE Norm(x[1] * y[2] + y[1] * x[2], x[2] * y[2])
RNeg(x) == IF IsNaN(x) THEN NaN ELSE <<-x[1], x[2]>>
RSub(x, y) == RAdd(x, RNeg(y))
\* cross-cancel before multiplying so that intermediate products stay small
RMul(x, y) ==
    IF IsNaN(x) \/ IsNaN(y) THEN NaN
    ELSE LET a == Norm(x[1], y[2])
             b == Norm(y[1], x[2])
         IN  Norm(a[1] * b[1], a[2] * b[2])
\* numpy division: x / 0 is inf or nan, never an exception; the model has no
\* infinities and gives NaN
RDiv(x, y) == IF IsNaN(x) \/ IsNaN(y) \/ y[1] = 0 THEN NaN
              ELSE RMul(x, Norm(y[2], y[1]))

\* comparisons with NaN are false, as in IEEE arithmetic
RLt(x, y) == ~IsNaN(x) /\ ~IsNaN(y) /\ x[1] * y[2] < y[1] * x[2]
RLe(x, y) == ~IsNaN(x) /\ ~IsNaN(y) /\ x[1] * y[2] <= y[1] * x[2]
RGt(x, y) == RLt(y, x)
RGe(x, y) == RLe(y, x)
REq(x, y) == ~IsNaN(x) /\ ~IsNaN(y) /\ x = y

At(s, i) == s[i + 1]

RECURSIVE RSum(_, _, _)
\* sum of the source slice s[lo:hi+1]
RSum(s, lo, hi) == IF lo > hi THEN Zero ELSE RAdd(At(s, lo), RSum(s, lo + 1, hi))

\* np.mean of the source slice s[lo:hi+1]
Mean(s, lo, hi) == RDiv(RSum(s, lo, hi), R(hi - lo + 1))

RMax2(x, y) == IF RGt(y, x) THEN y ELSE x
RMin2(x, y) == IF RLt(y, x) THEN y ELSE x

RECURSIVE RMaxOf(_, _, _)
RMaxOf(s, lo, hi) == IF lo = hi THEN At(s, lo) ELSE RMax2(At(s, lo), RMaxOf(s, lo + 1, hi))
RECURSIVE RMinOf(_, _, _)
RMinOf(s, lo, hi) == IF lo = hi THEN At(s, lo) ELSE RMin2(At(s, lo), RMinOf(s, lo + 1, hi))

Max2(a, b) == IF a >= b THEN a ELSE b
RAbs(x) == IF RLt(x, Zero) THEN RNeg(x) ELSE x

(***************************************************************************)
(* Indicator library.  Each function returns the whole array, as in the    *)
(* source; entry k of the sequence is source index k - 1.                  *)
(***************************************************************************)
\* calculate_sma: NaN before index period - 1, then the mean of the window
calculate_sma(prices, period) ==
    [k \in 1..Len(prices) |->
        IF k - 1 >= period - 1 THEN Mean(prices, k - period, k - 1) ELSE NaN]

\* np.diff, then the gains and losses of calculate_rsi
Deltas(prices) == [k \in 1..(Len(prices) - 1) |-> RSub(prices[k + 1], prices[k])]
Gains(prices) ==
    [k \in 1..(Len(prices) - 1) |->
        IF RGt(Deltas(prices)[k], Zero) THEN Deltas(prices)[k] ELSE Zero]
Losses(prices) ==
    [k \in 1..(Len(prices) - 1) |->
        IF RLt(Deltas(prices)[k], Zero) THEN RNeg(Deltas(prices)[k]) ELSE Zero]

RECURSIVE WilderAvg(_, _, _)
\* avg_gain / avg_loss of calculate_rsi at source index i >= period:
\* seeded with the mean of the first `period` values, then Wilder's smoothing
WilderAvg(xs, period, i) ==
    IF i = period THEN Mean(xs, 0, period - 1)
    ELSE RDiv(RAdd(RMul(WilderAvg(xs, period, i - 1), R(period - 1)), At(xs, i - 1)),
              R(period))

RsiValue(avg_gain, avg_loss) ==
    IF avg_loss = Zero THEN R(100)
    ELSE RSub(R(100), RDiv(R(100), RAdd(One, RDiv(avg_gain, avg_loss))))

calculate_rsi(prices, period) ==
    IF Len(prices) < period + 1 THEN [k \in 1..Len(prices) |-> NaN]
    ELSE [k \in 1..Len(prices) |->
            IF k - 1 >= period
            THEN RsiValue(WilderAvg(Gains(prices), period, k - 1),
                          WilderAvg(Losses(prices), period, k - 1))
            ELSE NaN]

\* np.std(window) ** 2: the population variance of the source slice s[lo:hi+1]
Variance(s, lo, hi) ==
    LET m == Mean(s, lo, hi)
        sq == [k \in 1..Len(s) |-> RMul(RSub(s[k], m), RSub(s[k], m))]
    IN  Mean(sq, lo, hi)

\* calculate_bollinger_bands.  The bands are middle -/+ num_std * sqrt(variance);
\* a square root is not a rational, so every entry carries the middle and the
\* variance of its window and the comparisons on the bands are made on squares
\* (BandWidthPositive, PositionLe, PositionGe).  undefined = TRUE stands for NaN.
calculate_bollinger_bands(prices, period, num_std) ==
    [k \in 1..Len(prices) |->
        IF k - 1 >= period - 1
        THEN [undefined |-> FALSE,
              middle |-> Mean(prices, k - period, k - 1),
              variance |-> Variance(prices, k - period, k - 1)]
        ELSE [undefined |-> TRUE, middle |-> NaN, variance |-> NaN]]

\* a <= c * sqrt(v), for rationals a, c and v >= 0
LeTimesRoot(a, c, v) ==
    LET a2 == RMul(a, a)
        c2v == RMul(RMul(c, c), v)
    IN  IF RLe(a, Zero) /\ RGe(c, Zero) THEN TRUE
        ELSE IF RGt(a, Zero) /\ RLt(c, Zero) THEN FALSE
        ELSE IF RGt(a, Zero) THEN RLe(a2, c2v)
        ELSE RGe(a2, c2v)

\* band_width = upper - lower = 2 * num_std * std > 0
BandWidthPositive(band, num_std) ==
    ~band.undefined /\ RGt(num_std, Zero) /\ RGt(band.variance, Zero)

\* position = (price - lower) / band_width <= threshold, that is
\* price - middle <= (2 * threshold - 1) * num_std * std
PositionLe(price, band, num_std, threshold) ==
    LeTimesRoot(RSub(price, band.middle),
                RMul(RSub(RMul(R(2), threshold), One), num_std), band.variance)

\* position >= threshold
PositionGe(price, band, num_std, threshold) ==
    LeTimesRoot(RSub(band.middle, price),
                RMul(RSub(One, RMul(R(2), threshold)), num_std), band.variance)

RECURSIVE EmaPrefix(_, _, _)
\* the first n entries of calculate_ema(data, period): NaN before index
\* period - 1, there the mean of data[:period], then
\* ema[i] = data[i] * multiplier + ema[i-1] * (1 - multiplier)
EmaPrefix(data, period, n) ==
    IF n = 0 THEN <<>>
    ELSE LET prev == EmaPrefix(data, period, n - 1)
             multiplier == Norm(2, period + 1)
         IN  Append(prev,
                    IF n - 1 < period - 1 THEN NaN
                    ELSE IF n - 1 = period - 1 THEN Mean(data, 0, period - 1)
                    ELSE RAdd(RMul(data[n], multiplier),
                              RMul(prev[n - 1], RSub(One, multiplier))))

\* calculate_ema (nested in calculate_macd); the source raises IndexError when
\* len(data) < period, which calculate_macd's guards exclude
calculate_ema(data, period) == EmaPrefix(data, period, Len(data))

\* calculate_macd: returns the MACD line and the signal line (the histogram is
\* their difference and is only stored as a diagnostic).  The signal line is
\* calculate_ema over macd_line[start_idx:], written back from start_idx on.
calculate_macd(prices, fast_period, slow_period, signal_period) ==
    IF Len(prices) < slow_period
    THEN [macd_line |-> [k \in 1..Len(prices) |-> NaN],
          signal_line |-> [k \in 1..Len(prices) |-> NaN]]
    ELSE LET n == Len(prices)
             ema_fast == calculate_ema(prices, fast_period)
             ema_slow == calculate_ema(prices, slow_period)
             macd == SubSeq([k \in 1..n |-> RSub(ema_fast[k], ema_slow[k])], 1, n)
             valid == Cardinality({k \in 1..n : ~IsNaN(macd[k])})
             start_idx == slow_period - 1
             signal_ema == calculate_ema(SubSeq(macd, start_idx + 1, n), signal_period)
         IN  [macd_line |-> macd,
              signal_line |->
                 IF valid >= signal_period
                 THEN [k \in 1..n |->
                         IF k - 1 >= start_idx THEN signal_ema[k - start_idx] ELSE NaN]
                 ELSE [k \in 1..n |-> NaN]]

\* calculate_rolling_high / calculate_rolling_low
\* a rolling high over a window one candle too short
calculate_rolling_high_short_window(prices, period) ==
    [k \in 1..Len(prices) |->
        IF k - 1 >= period - 1
        THEN RMaxOf(prices, IF period > 1 THEN k - period + 1 ELSE k - 1, k - 1)
        ELSE NaN]

calculate_rolling_high(prices, period) ==
    [k \in 1..Len(prices) |->
        IF k - 1 >= period - 1 THEN RMaxOf(prices, k - period, k - 1) ELSE NaN]
calculate_rolling_low(prices, period) ==
    [k \in 1..Len(prices) |->
        IF k - 1 >= period - 1 THEN RMinOf(prices, k - period, k - 1) ELSE NaN]

\* true range of calculate_atr at source index i >= 1
TrueRange(highs, lows, closes, i) ==
    RMax2(RMax2(RSub(At(highs, i), At(lows, i)),
                RAbs(RSub(At(highs, i), At(closes, i - 1)))),
          RAbs(RSub(At(lows, i), At(closes, i - 1))))

\* calculate_atr: simple moving average of the true range, defined from index
\* `period` on (the true range of index 0 is NaN)
calculate_atr(highs, lows, closes, period) ==
    IF Len(highs) < 2 THEN [k \in 1..Len(highs) |-> NaN]
    ELSE LET tr == [k \in 1..Len(highs) |->
                      IF k - 1 >= 1 THEN TrueRange(highs, lows, closes, k - 1) ELSE NaN]
         IN  [k \in 1..Len(highs) |->
                 IF k - 1 >= period /\ \A j \in (k - period + 1)..k : ~IsNaN(tr[j])
                 THEN Mean(tr, k - period, k - 1) ELSE NaN]

(***************************************************************************)
(* State                                                                   *)
(***************************************************************************)
VARIABLES
    \* the request: arguments of backtesting()
    strategy_type, strategy_params, start_date, end_date, initial_capital,
    commission_rate, generate_chart,
    \* the upstream exchange: the candles it holds and how it answers
    market, upstream,
    \* control: where the call of backtesting() stands
    pc,
    \* collect_candle_data
    current_to, call_count, retry, page, all_candles, get_candles_calls, sleeps,
    \* the running simulator
    candles, i, cash, asset, trade_history, portfolio_values,
    prev_rsi_oversold, prev_rsi_overbought, prev_macd_above_signal,
    last_step_traded, sim_steps,
    \* what the simulator and backtesting() return
    final_value, metrics, result,
    \* what the call of generate_backtest_chart came to ("none": not called)
    chart_result

request_vars == <<strategy_type, strategy_params, start_date, end_date,
                  initial_capital, commission_rate, generate_chart>>
upstream_vars == <<market, upstream>>
collect_vars == <<current_to, call_count, retry, page, all_candles,
                  get_candles_calls, sleeps>>
sim_vars == <<candles, i, cash, asset, trade_history, portfolio_values,
              prev_rsi_oversold, prev_rsi_overbought, prev_macd_above_signal,
              last_step_traded, sim_steps>>
vars == <<request_vars, upstream_vars, pc, collect_vars, sim_vars, final_value, metrics,
          result, chart_result>>

(***************************************************************************)
(* Strategy simulators.  A simulator state st is the record of the loop's  *)
(* locals; each *_step operator is one iteration of the simulator's for    *)
(* loop at source index i and returns the locals after it.                 *)
(***************************************************************************)
Closes(cs) == [k \in 1..Len(cs) |-> R(cs[k].trade_price)]
Highs(cs) == [k \in 1..Len(cs) |-> R(cs[k].high_price)]
Lows(cs) == [k \in 1..Len(cs) |-> R(cs[k].low_price)]

\* a trade dict.  has_balances tells whether the dict carries the keys
\* cash_balance and asset_balance (only the SMA and breakout simulators write
\* them); the strategy's diagnostic keys (rsi, macd, bb_position, entry_level,
\* ...) are left out.
Trade(date, action, price, quantity, commission, has_balances, cash_balance, asset_balance) ==
    [date |-> date, action |-> action, price |-> price, quantity |-> quantity,
     commission |-> commission, has_balances |-> has_balances,
     cash_balance |-> cash_balance, asset_balance |-> asset_balance]

\* portfolio_values.append(...) at the head of every loop body
RecordValue(st, date, price) ==
    Append(st.portfolio_values,
           [date |-> date, value |-> RAdd(st.cash, RMul(st.asset, price))])

\* the first index the simulator's for loop visits
LoopStart(strategy, params) ==
    IF strategy = "sma_crossover" THEN params.slow_period ELSE 0

\* a golden cross that also fires when the fast average only touches the slow
GoldenCrossOrTouch(prev_fast, prev_slow, curr_fast, curr_slow) ==
    RLe(prev_fast, prev_slow) /\ RGe(curr_fast, curr_slow)

\* prev_fast <= prev_slow and curr_fast > curr_slow
GoldenCross(prev_fast, prev_slow, curr_fast, curr_slow) ==
    RLe(prev_fast, prev_slow) /\ RGt(curr_fast, curr_slow)

\* prev_fast >= prev_slow and curr_fast < curr_slow
DeadCross(prev_fast, prev_slow, curr_fast, curr_slow) ==
    RGe(prev_fast, prev_slow) /\ RLt(curr_fast, curr_slow)

backtest_sma_crossover_step(st, cs, idx, params, rate) ==
    LET closes == Closes(cs)
        current_price == At(closes, idx)
        current_date == At(cs, idx).ts
        fast_sma == calculate_sma(closes, params.fast_period)
        slow_sma == calculate_sma(closes, params.slow_period)
        recorded == [st EXCEPT !.portfolio_values = RecordValue(st, current_date, current_price),
                               !.traded = FALSE]
    IN  IF idx > params.slow_period
        THEN LET prev_fast == At(fast_sma, idx - 1)
                 prev_slow == At(slow_sma, idx - 1)
                 curr_fast == At(fast_sma, idx)
                 curr_slow == At(slow_sma, idx)
             IN  IF GoldenCross(prev_fast, prev_slow, curr_fast, curr_slow) /\ st.asset = Zero
                 THEN LET buy_amount == RMul(st.cash, RSub(One, rate))
                          bought == RDiv(buy_amount, current_price)
                      IN  [recorded EXCEPT
                             !.asset = bought,
                             !.cash = Zero,
                             !.traded = TRUE,
                             !.trade_history = Append(@,
                                 Trade(current_date, "BUY", current_price, bought,
                                       \* cash is already 0 here, so the else branch
                                       RDiv(RMul(buy_amount, rate), current_price),
                                       TRUE, Zero, bought))]
                 ELSE IF DeadCross(prev_fast, prev_slow, curr_fast, curr_slow)
                         /\ RGt(st.asset, Zero)
                 THEN LET sell_amount == RMul(RMul(st.asset, current_price), RSub(One, rate))
                      IN  [recorded EXCEPT
                             !.cash = sell_amount,
                             !.asset = Zero,
                             !.traded = TRUE,
                             !.trade_history = Append(@,
                                 Trade(current_date, "SELL", current_price, st.asset,
                                       RMul(RMul(st.asset, current_price), rate),
                                       TRUE, sell_amount, Zero))]
                 ELSE recorded
        ELSE recorded

\* flags that, once raised, are never lowered again
UpdateRsiFlagsSticky(s, is_oversold, is_overbought) ==
    [s EXCEPT !.prev_rsi_oversold = @ \/ is_oversold,
              !.prev_rsi_overbought = @ \/ is_overbought]

\* the flags are updated at the end of every evaluated step:
\* prev_rsi_oversold = current_rsi <= oversold_threshold,
\* prev_rsi_overbought = current_rsi >= overbought_threshold
UpdateRsiFlags(s, is_oversold, is_overbought) ==
    [s EXCEPT !.prev_rsi_oversold = is_oversold,
              !.prev_rsi_overbought = is_overbought]

backtest_rsi_oversold_step(st, cs, idx, params, rate) ==
    LET prices == Closes(cs)
        price == At(prices, idx)
        date == At(cs, idx).ts
        rsi_values == calculate_rsi(prices, params.rsi_period)
        current_rsi == At(rsi_values, idx)
        is_oversold == RLe(current_rsi, params.oversold_threshold)
        is_overbought == RGe(current_rsi, params.overbought_threshold)
        recorded == [st EXCEPT !.portfolio_values = RecordValue(st, date, price),
                               !.traded = FALSE]
        flagged(s) == UpdateRsiFlags(s, is_oversold, is_overbought)
    IN  IF idx >= params.rsi_period /\ ~IsNaN(current_rsi)
        THEN IF is_oversold /\ ~st.prev_rsi_oversold /\ st.asset = Zero
             THEN LET buy_amount == RMul(st.cash, RSub(One, rate))
                      bought == RDiv(buy_amount, price)
                  IN  flagged([recorded EXCEPT
                         !.asset = bought,
                         !.cash = Zero,
                         !.traded = TRUE,
                         !.trade_history = Append(@,
                             \* "commission": cash * commission_rate, read after cash = 0
                             Trade(date, "BUY", price, bought, RMul(Zero, rate),
                                   FALSE, NaN, NaN))])
             ELSE IF is_overbought /\ ~st.prev_rsi_overbought /\ RGt(st.asset, Zero)
             THEN LET sell_amount == RMul(RMul(st.asset, price), RSub(One, rate))
                  IN  flagged([recorded EXCEPT
                         !.cash = sell_amount,
                         !.asset = Zero,
                         !.traded = TRUE,
                         !.trade_history = Append(@,
                             \* quantity and commission are read after asset = 0
                             Trade(date, "SELL", price, Zero,
                                   RMul(RMul(Zero, price), rate), FALSE, NaN, NaN))])
             ELSE flagged(recorded)
        ELSE recorded

backtest_bollinger_bands_step(st, cs, idx, params, rate) ==
    LET prices == Closes(cs)
        price == At(prices, idx)
        date == At(cs, idx).ts
        bands == calculate_bollinger_bands(prices, params.period, params.std_dev)
        band == At(bands, idx)
        recorded == [st EXCEPT !.portfolio_values = RecordValue(st, date, price),
                               !.traded = FALSE]
    IN  IF idx >= params.period /\ ~band.undefined
           /\ BandWidthPositive(band, params.std_dev)
        THEN IF PositionLe(price, band, params.std_dev, params.buy_threshold)
                /\ st.asset = Zero
             THEN LET buy_amount == RMul(st.cash, RSub(One, rate))
                      bought == RDiv(buy_amount, price)
                  IN  [recorded EXCEPT
                         !.asset = bought,
                         !.cash = Zero,
                         !.traded = TRUE,
                         !.trade_history = Append(@,
                             Trade(date, "BUY", price, bought, RMul(Zero, rate),
                                   FALSE, NaN, NaN))]
             ELSE IF PositionGe(price, band, params.std_dev, params.sell_threshold)
                     /\ RGt(st.asset, Zero)
             THEN LET sell_amount == RMul(RMul(st.asset, price), RSub(One, rate))
                  IN  [recorded EXCEPT
                         !.cash = sell_amount,
                         !.asset = Zero,
                         !.traded = TRUE,
                         !.trade_history = Append(@,
                             Trade(date, "SELL", price, Zero,
                                   RMul(RMul(Zero, price), rate), FALSE, NaN, NaN))]
             ELSE recorded
        ELSE recorded

backtest_macd_signal_step(st, cs, idx, params, rate) ==
    LET prices == Closes(cs)
        price == At(prices, idx)
        date == At(cs, idx).ts
        macd == calculate_macd(prices, params.fast_period, params.slow_period,
                               params.signal_period)
        current_macd == At(macd.macd_line, idx)
        current_signal == At(macd.signal_line, idx)
        current_macd_above == RGt(current_macd, current_signal)
        recorded == [st EXCEPT !.portfolio_values = RecordValue(st, date, price),
                               !.traded = FALSE]
        flagged(s) == [s EXCEPT !.prev_macd_above_signal = current_macd_above]
    IN  IF idx >= params.slow_period + params.signal_period
           /\ ~IsNaN(current_macd) /\ ~IsNaN(current_signal)
        THEN IF current_macd_above /\ ~st.prev_macd_above_signal /\ st.asset = Zero
             THEN LET buy_amount == RMul(st.cash, RSub(One, rate))
                      bought == RDiv(buy_amount, price)
                  IN  flagged([recorded EXCEPT
                         !.asset = bought,
                         !.cash = Zero,
                         !.traded = TRUE,
                         !.trade_history = Append(@,
                             Trade(date, "BUY", price, bought, RMul(Zero, rate),
                                   FALSE, NaN, NaN))])
             ELSE IF ~current_macd_above /\ st.prev_macd_above_signal
                     /\ RGt(st.asset, Zero)
             THEN LET sell_amount == RMul(RMul(st.asset, price), RSub(One, rate))
                  IN  flagged([recorded EXCEPT
                         !.cash = sell_amount,
                         !.asset = Zero,
                         !.traded = TRUE,
                         !.trade_history = Append(@,
                             Trade(date, "SELL", price, Zero,
                                   RMul(RMul(Zero, price), rate), FALSE, NaN, NaN))])
             ELSE flagged(recorded)
        ELSE recorded

backtest_breakout_step(st, cs, idx, params, rate, capital) ==
    LET closes == Closes(cs)
        current_price == At(closes, idx)
        current_date == At(cs, idx).ts
        entry_highs == calculate_rolling_high(Highs(cs), params.lookback)
        exit_lows == calculate_rolling_low(Lows(cs), params.exit_lookback)
        atr_values == calculate_atr(Highs(cs), Lows(cs), closes, params.atr_period)
        recorded == [st EXCEPT !.portfolio_values = RecordValue(st, current_date, current_price),
                               !.traded = FALSE]
    IN  IF idx >= params.lookback
        THEN LET entry_level == At(entry_highs, idx - 1)
                 \* exit_level is None when i < exit_lookback
                 exit_defined == idx >= params.exit_lookback
                 exit_level == IF exit_defined THEN At(exit_lows, idx - 1) ELSE NaN
                 can_enter ==
                     IF params.atr_filter /\ idx >= params.atr_period
                        /\ ~IsNaN(At(atr_values, idx))
                     THEN RGe(RSub(current_price, entry_level),
                              RMul(At(atr_values, idx), Norm(1, 2)))
                     ELSE TRUE
             IN  IF ~IsNaN(entry_level) /\ RGt(current_price, entry_level)
                    /\ st.asset = Zero
                 THEN IF can_enter
                      THEN LET buy_amount == RMul(st.cash, RSub(One, rate))
                               bought == RDiv(buy_amount, current_price)
                           IN  [recorded EXCEPT
                                  !.asset = bought,
                                  !.cash = Zero,
                                  !.traded = TRUE,
                                  !.trade_history = Append(@,
                                      \* cash == 0 here, so initial_capital * rate
                                      Trade(current_date, "BUY", current_price, bought,
                                            RMul(capital, rate), TRUE, Zero, bought))]
                      ELSE recorded
                 ELSE IF exit_defined /\ ~IsNaN(exit_level)
                         /\ RLt(current_price, exit_level) /\ RGt(st.asset, Zero)
                 THEN LET sell_amount ==
                              RMul(RMul(st.asset, current_price), RSub(One, rate))
                      IN  [recorded EXCEPT
                             !.cash = sell_amount,
                             !.asset = Zero,
                             !.traded = TRUE,
                             !.trade_history = Append(@,
                                 Trade(current_date, "SELL", current_price, st.asset,
                                       RMul(RMul(st.asset, current_price), rate),
                                       TRUE, sell_amount, Zero))]
                 ELSE recorded
        ELSE recorded

\* the loop body of the simulator that backtesting() dispatches to
LoopBody(strategy, st, cs, idx, params, rate, capital) ==
    CASE strategy = "sma_crossover" -> backtest_sma_crossover_step(st, cs, idx, params, rate)
      [] strategy = "rsi_oversold" -> backtest_rsi_oversold_step(st, cs, idx, params, rate)
      [] strategy = "bollinger_bands" -> backtest_bollinger_bands_step(st, cs, idx, params, rate)
      [] strategy = "macd_signal" -> backtest_macd_signal_step(st, cs, idx, params, rate)
      [] strategy = "breakout" -> backtest_breakout_step(st, cs, idx, params, rate, capital)

\* a simulator whose SELL branch fails to reset asset to 0
SimulatorStepKeepsAsset(strategy, st, cs, idx, params, rate, capital) ==
    LET after == LoopBody(strategy, st, cs, idx, params, rate, capital)
    IN  IF after.traded /\ after.trade_history[Len(after.trade_history)].action = "SELL"
        THEN [after EXCEPT !.asset = st.asset]
        ELSE after

\* a simulator whose entry test lacks the `asset == 0` guard
SimulatorStepBuysWhileLong(strategy, st, cs, idx, params, rate, capital) ==
    LET flat == [st EXCEPT !.asset = Zero]
        after == LoopBody(strategy, flat, cs, idx, params, rate, capital)
    IN  IF after.traded /\ after.trade_history[Len(after.trade_history)].action = "BUY"
        THEN after
        ELSE LoopBody(strategy, st, cs, idx, params, rate, capital)

\* a simulator whose BUY converts the cash without charging the commission
SimulatorStepBuysCommissionFree(strategy, st, cs, idx, params, rate, capital) ==
    LET after == LoopBody(strategy, st, cs, idx, params, rate, capital)
    IN  IF after.traded /\ after.trade_history[Len(after.trade_history)].action = "BUY"
        THEN [after EXCEPT !.asset = RDiv(st.cash, R(cs[idx + 1].trade_price))]
        ELSE after

\* one iteration of the running simulator's for loop
SimulatorStep(strategy, st, cs, idx, params, rate, capital) ==
    LoopBody(strategy, st, cs, idx, params, rate, capital)

\* a settlement that reads the first close instead of the last
FinalValueAtFirstClose(final_cash, final_asset, cs) ==
    RAdd(final_cash, RMul(final_asset, R(cs[1].trade_price)))

\* final_value = cash + asset * closes[-1] after a simulator's loop
FinalValue(final_cash, final_asset, cs) ==
    RAdd(final_cash, RMul(final_asset, R(cs[Len(cs)].trade_price)))

(***************************************************************************)
(* backtesting(): validation of the request                                *)
(***************************************************************************)
\* default of the initial_capital argument
DefaultCapital == 1000000

SupportedStrategies ==
    {"sma_crossover", "rsi_oversold", "bollinger_bands", "macd_signal", "breakout"}

\* datetime.strptime(date, "%Y-%m-%d"): a date string either is well formed
\* and denotes a day number >= 0, or is BadDate and raises ValueError
BadDate == -1
ParsesAsDate(d) == d /= BadDate

\* per-strategy checks of backtesting(), in source order; "ok" or the error
ValidateStrategyParams(strategy, params) ==
    CASE strategy = "sma_crossover" ->
            IF params.fast_period >= params.slow_period THEN "error"
            ELSE IF params.fast_period < 1 \/ params.slow_period < 1 THEN "error"
            ELSE "ok"
      [] strategy = "rsi_oversold" ->
            IF params.rsi_period < 2 THEN "error"
            ELSE IF RGe(params.oversold_threshold, params.overbought_threshold) THEN "error"
            ELSE IF RLt(params.oversold_threshold, Zero)
                    \/ RGt(params.overbought_threshold, R(100)) THEN "error"
            ELSE "ok"
      [] strategy = "bollinger_bands" ->
            IF params.period < 2 THEN "error"
            ELSE IF RLe(params.std_dev, Zero) THEN "error"
            ELSE IF RGe(params.buy_threshold, params.sell_threshold) THEN "error"
            ELSE IF RLt(params.buy_threshold, Zero)
                    \/ RGt(params.sell_threshold, One) THEN "error"
            ELSE "ok"
      [] strategy = "macd_signal" ->
            IF params.fast_period >= params.slow_period THEN "error"
            ELSE IF params.fast_period < 1 \/ params.slow_period < 1
                    \/ params.signal_period < 1 THEN "error"
            ELSE "ok"
      [] strategy = "breakout" ->
            IF params.lookback < 1 \/ params.exit_lookback < 1 THEN "error"
            ELSE IF params.atr_period < 1 THEN "error"
            ELSE IF params.lookback <= params.exit_lookback THEN "error"
            ELSE "ok"
      \* no branch of the if/elif chain matches any other tag
      [] OTHER -> "ok"

\* validation without the commission-rate range check
ValidateRequestNoRateCheck(strategy, params, start, end, capital, rate) ==
    IF ~ParsesAsDate(start) \/ ~ParsesAsDate(end) THEN "error"
    ELSE IF start >= end THEN "error"
    ELSE IF RLe(capital, Zero) THEN "error"
    ELSE IF strategy = "custom" THEN "error"
    ELSE ValidateStrategyParams(strategy, params)

\* the checks backtesting() makes before it calls collect_candle_data
ValidateRequest(strategy, params, start, end, capital, rate) ==
    IF ~ParsesAsDate(start) \/ ~ParsesAsDate(end) THEN "error"
    ELSE IF start >= end THEN "error"
    ELSE IF RLe(capital, Zero) THEN "error"
    ELSE IF RLt(rate, Zero) \/ RGt(rate, Norm(1, 10)) THEN "error"
    ELSE IF strategy = "custom" THEN "error"
    ELSE ValidateStrategyParams(strategy, params)

\* a minimum that is the longest indicator period alone
MinRequiredCandlesLongestPeriod(strategy, params) ==
    CASE strategy = "sma_crossover" -> Max2(params.fast_period, params.slow_period)
      [] strategy = "rsi_oversold" -> params.rsi_period
      [] strategy = "bollinger_bands" -> params.period
      [] strategy = "macd_signal" -> Max2(params.fast_period, params.slow_period)
      [] strategy = "breakout" ->
            Max2(Max2(params.lookback, params.exit_lookback), params.atr_period)
      [] OTHER -> 50

\* min_required_candles of backtesting()
MinRequiredCandles(strategy, params) ==
    CASE strategy = "sma_crossover" -> Max2(params.fast_period, params.slow_period)
      [] strategy = "rsi_oversold" -> params.rsi_period + 1
      [] strategy = "bollinger_bands" -> params.period
      [] strategy = "macd_signal" ->
            Max2(params.fast_period, params.slow_period) + params.signal_period
      [] strategy = "breakout" ->
            Max2(Max2(params.lookback, params.exit_lookback), params.atr_period) + 5
      [] OTHER -> 50

(***************************************************************************)
(* The requests and candle series the model enumerates                     *)
(***************************************************************************)
\* strategy_params after backtesting() has read it: every local the source
\* initialises, the ones of other strategies left at 0
NoParams ==
    [fast_period |-> 0, slow_period |-> 0, signal_period |-> 0, rsi_period |-> 0,
     oversold_threshold |-> Zero, overbought_threshold |-> Zero,
     period |-> 0, std_dev |-> Zero, buy_threshold |-> Zero, sell_threshold |-> Zero,
     lookback |-> 0, exit_lookback |-> 0, atr_period |-> 0, atr_filter |-> FALSE]

ParamChoices(strategy) ==
    CASE strategy = "sma_crossover" ->
            {[NoParams EXCEPT !.fast_period = f, !.slow_period = s] :
                f \in {0, 1, 2}, s \in {0, 2}}
      [] strategy = "rsi_oversold" ->
            {[NoParams EXCEPT !.rsi_period = n, !.oversold_threshold = R(lo),
                              !.overbought_threshold = R(hi)] :
                n \in {1, 2}, lo \in {-10, 30, 70}, hi \in {30, 70, 110}}
      [] strategy = "bollinger_bands" ->
            {[NoParams EXCEPT !.period = n, !.std_dev = R(k),
                              !.buy_threshold = Norm(b, 10), !.sell_threshold = Norm(t, 10)] :
                n \in {1, 2}, k \in {0, 1}, b \in {-1, 1, 9}, t \in {1, 9, 11}}
      [] strategy = "macd_signal" ->
            {[NoParams EXCEPT !.fast_period = f, !.slow_period = 2, !.signal_period = g] :
                f \in {0, 1, 2}, g \in {0, 2}}
      [] strategy = "breakout" ->
            \* an ATR period longer than the entry channel is tried with the
            \* filter on and the shortest exit channel
            {p \in {[NoParams EXCEPT !.lookback = l, !.exit_lookback = e,
                                     !.atr_period = a, !.atr_filter = flt] :
                       l \in {0, 2}, e \in {0, 1, 2}, a \in {0, 1, 3}, flt \in BOOLEAN} :
                p.atr_period = 3 => (p.atr_filter /\ p.exit_lookback = 1)}
      [] OTHER -> {NoParams}

ValidParams(strategy) ==
    {p \in ParamChoices(strategy) : ValidateStrategyParams(strategy, p) = "ok"}

\* candle_date_time_kst of the n-th candle slot of the market (n from 0)
TicksPerDay == 3
CandleTick(n) == (n \div (TicksPerDay - 1)) * TicksPerDay + (n % (TicksPerDay - 1))
\* candle["candle_date_time_kst"][:10], parsed
DateOf(tick) == tick \div TicksPerDay
\* end_date + "T23:59:59"
EndOfDay(day) == day * TicksPerDay + (TicksPerDay - 1)

Candle(tick, close, high, low) ==
    [ts |-> tick, trade_price |-> close, high_price |-> high, low_price |-> low]

\* a candle whose high and low stand `wick` away from its close (prices stay >= 1)
WickCandle(tick, close, wick) ==
    Candle(tick, close, close + wick, IF close - wick >= 1 THEN close - wick ELSE close)

\* the candle series a simulator is run on: ascending, one candle per slot,
\* at least the strategy's minimum count
SeriesLengths(strategy, params) ==
    LET least == MinRequiredCandles(strategy, params)
    IN  least..Max2(least, IF strategy = "breakout" THEN least ELSE MaxLen)

\* the wicks of the series: only the breakout simulator reads highs and lows,
\* and wicks are tried where its ATR period fits inside the entry channel
SeriesWicks(strategy, params) ==
    IF strategy = "breakout" /\ params.atr_period <= params.lookback THEN {0, 1} ELSE {0}

Series(n, closes, wick) == [k \in 1..n |-> WickCandle(CandleTick(k - 1), closes[k], wick)]

(***************************************************************************)
(* The upstream exchange and get_candles                                   *)
(***************************************************************************)
\* max_retries of collect_candle_data
MaxRetries == 3

\* market data of the model: the close of every candle slot under the three
\* price profiles, and the slots the exchange holds in each scenario
ProfileClose(profile, n) ==
    CASE profile = "flat" -> 2
      [] profile = "zigzag" -> At(<<2, 2, 2, 3, 2, 1, 2, 3, 2, 1, 2, 3>>, n % 12)
      [] profile = "swing" -> At(<<1, 2, 3, 3, 1, 1, 3, 1, 1, 3, 3, 1>>, n % 12)

MarketOf(slots, profile) == {WickCandle(CandleTick(n), ProfileClose(profile, n), 0) : n \in slots}

Markets ==
    {MarketOf((0..1) \cup (3..9), "zigzag"),
     MarketOf((0..1) \cup (3..9), "swing"),
     MarketOf(3..9, "flat"),
     MarketOf(0..11, "zigzag"),
     MarketOf(0..1, "flat"),
     MarketOf(6..9, "swing")}

RECURSIVE Descending(_)
\* the candles of a set, newest first
Descending(cs) ==
    IF cs = {} THEN <<>>
    ELSE LET newest == CHOOSE c \in cs : \A d \in cs : d.ts <= c.ts
         IN  <<newest>> \o Descending(cs \ {newest})

Take(seq, n) == SubSeq(seq, 1, IF Len(seq) < n THEN Len(seq) ELSE n)

\* the page an exchange that keeps its contract answers: the `count` most
\* recent candles before `to`, newest first
HonestPage(to, count) == Take(Descending({c \in market : c.ts < to}), count)

\* any page of at most `count` distinct candles none of which is later than
\* `to` ("to: the time of the last candle to query"): in any order, and free
\* to repeat candles of earlier pages, the cursor candle among them
AnyPages(to, count) ==
    LET pool == {c \in market : c.ts <= to}
    IN  {pg \in UNION {[1..n -> pool] : n \in 0..count} :
            \A a, b \in DOMAIN pg : a /= b => pg[a] /= pg[b]}

\* what the HTTP exchange of one get_candles call can come to
HttpOutcomes(to, count) ==
    {[kind |-> "json_list", candles |-> pg] :
        pg \in IF upstream = "honest" THEN {HonestPage(to, count)} ELSE AnyPages(to, count)}
    \cup {[kind |-> k, candles |-> <<>>] :
            k \in {"json_other", "status_rate_limit", "status_other",
                   "request_exception", "client_exception"}}

\* get_candles: the value it returns for an HTTP outcome.  A status other
\* than 200 and an exception inside the try both come back as [{"error": ...}];
\* only an exception outside the try (creating or closing the client) raises.
\* rate_limited: the error text contains "too_many_requests".
get_candles(http) ==
    CASE http.kind = "json_list" -> [kind |-> "candles", candles |-> http.candles]
      [] http.kind = "json_other" -> [kind |-> "not_a_list", candles |-> <<>>]
      [] http.kind = "status_rate_limit" -> [kind |-> "rate_limited", candles |-> <<>>]
      [] http.kind = "status_other" -> [kind |-> "error_list", candles |-> <<>>]
      [] http.kind = "request_exception" -> [kind |-> "error_list", candles |-> <<>>]
      [] http.kind = "client_exception" -> [kind |-> "raised", candles |-> <<>>]

(***************************************************************************)
(* collect_candle_data                                                     *)
(***************************************************************************)
\* a returned dict: its keys, chart_info.chart_generated, and what an error
\* text names (<<>> when it names nothing the model tracks)
ErrorResult == [keys |-> {"error"}, chart_generated |-> FALSE, message |-> <<>>]
NoResult == [keys |-> {}, chart_generated |-> FALSE, message |-> <<>>]

\* "at least {min_required_candles} candles are needed but there are only
\* {len(candles)}"
InsufficientData(required, actual) ==
    [ErrorResult EXCEPT !.message = <<"insufficient_data", required, actual>>]

\* a ceiling that is off by one page
TooManyCallsOffByOne(n) == n > MaxCalls + 1

\* "if call_count > 50"
TooManyCalls(n) == n > MaxCalls

\* a filter that keeps every candle of the page
FilterPageKeepsAll(pg, start) == [kept |-> pg, found_before_start |-> FALSE]

RECURSIVE FilterPage(_, _)
\* the filter loop over one page: keeps the candles dated on or after the
\* start date and stops at the first one dated before it
FilterPage(pg, start) ==
    IF pg = <<>> THEN [kept |-> <<>>, found_before_start |-> FALSE]
    ELSE IF DateOf(Head(pg).ts) >= start
         THEN LET rest == FilterPage(Tail(pg), start)
              IN  [kept |-> <<Head(pg)>> \o rest.kept,
                   found_before_start |-> rest.found_before_start]
         ELSE [kept |-> <<>>, found_before_start |-> TRUE]

RECURSIVE InsertByTs(_, _)
InsertByTs(sorted, c) ==
    IF sorted = <<>> THEN <<c>>
    ELSE IF Head(sorted).ts <= c.ts THEN <<Head(sorted)>> \o InsertByTs(Tail(sorted), c)
    ELSE <<c>> \o sorted

RECURSIVE SortByTs(_)
\* all_candles.sort(key=candle_date_time_kst): a stable ascending sort
SortByTs(cs) ==
    IF cs = <<>> THEN <<>>
    ELSE InsertByTs(SortByTs(SubSeq(cs, 1, Len(cs) - 1)), cs[Len(cs)])

\* the first cursor: end_date + "T23:59:59"
FirstCursor(end) == EndOfDay(end)

\* head of the while loop: count the page, give up past the ceiling
BeginPage ==
    /\ pc = "page"
    /\ call_count' = call_count + 1
    /\ IF TooManyCalls(call_count + 1)
       THEN /\ result' = ErrorResult
            /\ pc' = "done"
            /\ UNCHANGED <<retry, sleeps>>
       ELSE /\ retry' = 0
            /\ sleeps' = <<>>
            /\ pc' = "fetch"
            /\ UNCHANGED result
    /\ UNCHANGED <<request_vars, upstream_vars, current_to, page, all_candles,
                   get_candles_calls, sim_vars, final_value, metrics, chart_result>>

\* a wait of the retry loop: what it follows and its seconds
Sleep(after, seconds) == [after |-> after, seconds |-> seconds]

\* a backoff that grows by one second per attempt
BackoffLinear(attempt) == attempt + 1

\* asyncio.sleep(2 ** retry)
Backoff(attempt) == 2 ^ attempt

\* one pass of the retry loop: one call of get_candles
FetchAttempt ==
    /\ pc = "fetch"
    /\ \E http \in HttpOutcomes(current_to, PageSize) :
        \E answer \in {get_candles(http)} :
            /\ get_candles_calls' = get_candles_calls + 1
            /\ CASE answer.kind = "rate_limited" ->
                     \* sleep 2 ** retry, then `continue`; when the loop runs out
                     \* the error list is what the page checks see
                     /\ sleeps' = Append(sleeps, Sleep("rate_limited", Backoff(retry)))
                     /\ page' = answer
                     /\ IF retry + 1 < MaxRetries
                        THEN retry' = retry + 1 /\ pc' = "fetch"
                        ELSE retry' = retry /\ pc' = "process"
                     /\ UNCHANGED result
                 [] answer.kind = "raised" ->
                     IF retry = MaxRetries - 1
                     THEN /\ result' = ErrorResult
                          /\ pc' = "done"
                          /\ UNCHANGED <<retry, sleeps, page>>
                     ELSE /\ sleeps' = Append(sleeps, Sleep("raised", 1))
                          /\ retry' = retry + 1
                          /\ pc' = "fetch"
                          /\ UNCHANGED <<result, page>>
                 [] OTHER ->
                     /\ page' = answer
                     /\ pc' = "process"
                     /\ UNCHANGED <<retry, sleeps, result>>
    /\ UNCHANGED <<request_vars, upstream_vars, current_to, call_count, all_candles,
                   sim_vars, final_value, metrics, chart_result>>

\* a cursor check that never fires
CursorUnchangedNever(new_to, to) == FALSE

\* "if new_to == current_to"
CursorUnchanged(new_to, to) == new_to = to

\* the checks on the fetched page, the date filter and the cursor update
ProcessPage ==
    /\ pc = "process"
    /\ IF page.kind = "not_a_list" \/ page.kind \in {"error_list", "rate_limited"}
       THEN /\ result' = ErrorResult
            /\ pc' = "done"
            /\ UNCHANGED <<all_candles, current_to>>
       ELSE IF Len(page.candles) = 0
       THEN /\ pc' = "collected"
            /\ UNCHANGED <<all_candles, current_to, result>>
       ELSE \E filtered \in {FilterPage(page.candles, start_date)} :
            /\ all_candles' = all_candles \o filtered.kept
            /\ UNCHANGED result
            /\ IF filtered.found_before_start THEN pc' = "collected" /\ UNCHANGED current_to
               ELSE IF Len(page.candles) < PageSize
               THEN pc' = "collected" /\ UNCHANGED current_to
               ELSE LET new_to == page.candles[Len(page.candles)].ts
                    IN  IF CursorUnchanged(new_to, current_to)
                        THEN pc' = "collected" /\ UNCHANGED current_to
                        ELSE current_to' = new_to /\ pc' = "page"
    /\ UNCHANGED <<request_vars, upstream_vars, call_count, retry, page,
                   get_candles_calls, sleeps, sim_vars, final_value, metrics, chart_result>>

\* after the loop: an empty collection is an error, otherwise the candles
\* are sorted and returned
CollectReturn ==
    /\ pc = "collected"
    /\ IF Len(all_candles) = 0
       THEN result' = ErrorResult /\ pc' = "done" /\ UNCHANGED candles
       ELSE candles' = SortByTs(all_candles) /\ pc' = "check" /\ UNCHANGED result
    /\ UNCHANGED <<request_vars, upstream_vars, collect_vars, i, cash, asset,
                   trade_history, portfolio_values, prev_rsi_oversold,
                   prev_rsi_overbought, prev_macd_above_signal, last_step_traded,
                   sim_steps, final_value, metrics, chart_result>>

(***************************************************************************)
(* Performance metrics                                                     *)
(***************************************************************************)
\* float('inf')
Infinity == <<1, 0>>

RECURSIVE DrawdownFromFirst(_, _, _)
\* drawdowns measured from the first point only, the peak never moved
DrawdownFromFirst(pv, k, max_drawdown) ==
    IF k > Len(pv) THEN max_drawdown
    ELSE LET drawdown == RDiv(RSub(pv[1].value, pv[k].value), pv[1].value)
         IN  DrawdownFromFirst(pv, k + 1,
                               IF RGt(drawdown, max_drawdown) THEN drawdown ELSE max_drawdown)

calculate_max_drawdown_first_peak(pv) ==
    IF Len(pv) < 2 THEN Zero
    ELSE RNeg(DrawdownFromFirst(pv, 1, Zero))

RECURSIVE MaxDrawdownLoop(_, _, _, _)
\* the for loop of calculate_max_drawdown from the k-th point on
MaxDrawdownLoop(pv, k, peak, max_drawdown) ==
    IF k > Len(pv) THEN max_drawdown
    ELSE LET value == pv[k].value
             new_peak == IF RGt(value, peak) THEN value ELSE peak
             drawdown == RDiv(RSub(new_peak, value), new_peak)
         IN  MaxDrawdownLoop(pv, k + 1, new_peak,
                             IF RGt(drawdown, max_drawdown) THEN drawdown ELSE max_drawdown)

calculate_max_drawdown(pv) ==
    IF Len(pv) < 2 THEN Zero
    ELSE RNeg(MaxDrawdownLoop(pv, 1, pv[1].value, Zero))

\* a drawdown_periods entry
Episode(peak_date, trough_date, recovery_date, drawdown) ==
    [peak_date |-> peak_date, trough_date |-> trough_date,
     recovery_date |-> recovery_date, drawdown |-> drawdown]

RECURSIVE DrawdownLoop(_, _, _, _)
\* the for loop of calculate_drawdown_periods over portfolio_values[1:];
\* w holds the locals peak_value, peak_date, trough_value, trough_date and
\* in_drawdown
DrawdownLoop(pv, k, w, periods) ==
    IF k > Len(pv) THEN periods
    ELSE LET value == pv[k].value
             date == pv[k].date
         IN  IF RGt(value, w.peak_value)
             THEN DrawdownLoop(pv, k + 1,
                      [peak_value |-> value, peak_date |-> date,
                       trough_value |-> value, trough_date |-> date,
                       in_drawdown |-> FALSE],
                      IF w.in_drawdown
                      THEN Append(periods,
                               Episode(w.peak_date, w.trough_date, date,
                                       RNeg(RDiv(RSub(w.peak_value, w.trough_value),
                                                 w.peak_value))))
                      ELSE periods)
             ELSE DrawdownLoop(pv, k + 1,
                      IF RLt(value, w.trough_value)
                      THEN [w EXCEPT !.in_drawdown = TRUE, !.trough_value = value,
                                     !.trough_date = date]
                      ELSE [w EXCEPT !.in_drawdown = TRUE],
                      periods)

RECURSIVE InsertByDrawdown(_, _)
InsertByDrawdown(sorted, e) ==
    IF sorted = <<>> THEN <<e>>
    ELSE IF RLe(Head(sorted).drawdown, e.drawdown)
         THEN <<Head(sorted)>> \o InsertByDrawdown(Tail(sorted), e)
    ELSE <<e>> \o sorted

RECURSIVE SortByDrawdown(_)
\* drawdown_periods.sort(key=drawdown): stable, deepest first
SortByDrawdown(periods) ==
    IF periods = <<>> THEN <<>>
    ELSE InsertByDrawdown(SortByDrawdown(SubSeq(periods, 1, Len(periods) - 1)),
                          periods[Len(periods)])

\* the first five episodes in the order they were recorded, never sorted
calculate_drawdown_periods_unsorted(pv) ==
    IF Len(pv) < 2 THEN <<>>
    ELSE LET start == [peak_value |-> pv[1].value, peak_date |-> pv[1].date,
                       trough_value |-> pv[1].value, trough_date |-> pv[1].date,
                       in_drawdown |-> FALSE]
         IN  Take(DrawdownLoop(pv, 2, start, <<>>), 5)

calculate_drawdown_periods(pv) ==
    IF Len(pv) < 2 THEN <<>>
    ELSE LET start == [peak_value |-> pv[1].value, peak_date |-> pv[1].date,
                       trough_value |-> pv[1].value, trough_date |-> pv[1].date,
                       in_drawdown |-> FALSE]
         IN  Take(SortByDrawdown(DrawdownLoop(pv, 2, start, <<>>)), 5)

IsBuy(t) == t.action = "BUY"
IsSell(t) == t.action = "SELL"

\* completed_trades of calculate_trade_metrics: the k-th BUY paired with the
\* k-th SELL, profit = sell quantity * price - buy quantity * price
CompletedTrades(trades) ==
    LET buy_trades == SelectSeq(trades, IsBuy)
        sell_trades == SelectSeq(trades, IsSell)
        n == IF Len(buy_trades) < Len(sell_trades) THEN Len(buy_trades) ELSE Len(sell_trades)
    IN  [k \in 1..n |->
            RSub(RMul(sell_trades[k].quantity, sell_trades[k].price),
                 RMul(buy_trades[k].quantity, buy_trades[k].price))]

\* sum(p for p in completed_trades if p > 0), and the same for p < 0
SumPositive(ps) == RSum([k \in 1..Len(ps) |-> IF RGt(ps[k], Zero) THEN ps[k] ELSE Zero], 0, Len(ps) - 1)
SumNegative(ps) == RSum([k \in 1..Len(ps) |-> IF RLt(ps[k], Zero) THEN ps[k] ELSE Zero], 0, Len(ps) - 1)

\* a profit factor that is 0 when there is no losing trade
ProfitFactorZeroWithoutLoss(total_profit, total_loss) ==
    IF RGt(total_loss, Zero) THEN RDiv(total_profit, total_loss) ELSE Zero

\* total_profit / total_loss if total_loss > 0 else float('inf')
ProfitFactor(total_profit, total_loss) ==
    IF RGt(total_loss, Zero) THEN RDiv(total_profit, total_loss) ELSE Infinity

calculate_trade_metrics(trades) ==
    LET completed_trades == CompletedTrades(trades)
        winning == {k \in 1..Len(completed_trades) : RGt(completed_trades[k], Zero)}
    IN  IF Len(trades) < 2 \/ Len(completed_trades) = 0
        THEN [win_rate |-> Zero, profit_factor |-> Zero, total_trades |-> Len(trades)]
        ELSE [win_rate |-> Norm(Cardinality(winning), Len(completed_trades)),
              profit_factor |-> ProfitFactor(SumPositive(completed_trades),
                                             RAbs(SumNegative(completed_trades))),
              total_trades |-> Len(trades)]

RECURSIVE RealizedProfitLoop(_, _)
\* realized_profit of calculate_portfolio_summary: the loop over
\* range(1, len(trade_history), 2), from source index idx on
RealizedProfitLoop(trades, idx) ==
    IF idx >= Len(trades) THEN Zero
    ELSE LET buy_trade == At(trades, idx - 1)
             sell_trade == At(trades, idx)
             trade_profit ==
                 RSub(RMul(RSub(sell_trade.price, buy_trade.price), buy_trade.quantity),
                      RAdd(buy_trade.commission, sell_trade.commission))
         IN  RAdd(IF sell_trade.action = "SELL" THEN trade_profit ELSE Zero,
                  RealizedProfitLoop(trades, idx + 2))

realized_profit(trades) ==
    IF Len(trades) >= 2 THEN RealizedProfitLoop(trades, 1) ELSE Zero

\* what a simulator computes after its loop.  realized_profit is part of
\* portfolio_summary, which only some simulators build; NaN stands for a
\* value the result does not carry.
NoMetrics ==
    [max_drawdown |-> NaN, drawdown_periods |-> <<>>, win_rate |-> NaN,
     profit_factor |-> NaN, total_trades |-> 0, realized_profit |-> NaN,
     absolute_profit |-> NaN, unrealized_profit |-> NaN]

\* absolute_profit of calculate_portfolio_summary:
\* final_cash + final_asset * final_price - initial_capital
absolute_profit(capital, final_cash, final_asset, final_price) ==
    RSub(RAdd(final_cash, RMul(final_asset, final_price)), capital)

\* unrealized_profit = absolute_profit - realized_profit
unrealized_profit(absolute, realized) == RSub(absolute, realized)

ComputedMetrics(pv, trades, with_summary, capital, final_cash, final_asset, final_price) ==
    LET trade_metrics == calculate_trade_metrics(trades)
        absolute == absolute_profit(capital, final_cash, final_asset, final_price)
    IN  [max_drawdown |-> calculate_max_drawdown(pv),
         drawdown_periods |-> calculate_drawdown_periods(pv),
         win_rate |-> trade_metrics.win_rate,
         profit_factor |-> trade_metrics.profit_factor,
         total_trades |-> trade_metrics.total_trades,
         realized_profit |-> IF with_summary THEN realized_profit(trades) ELSE NaN,
         absolute_profit |-> IF with_summary THEN absolute ELSE NaN,
         unrealized_profit |-> IF with_summary
                               THEN unrealized_profit(absolute, realized_profit(trades))
                               ELSE NaN]

(***************************************************************************)
(* Running a simulator                                                     *)
(***************************************************************************)
SimState ==
    [cash |-> cash, asset |-> asset, trade_history |-> trade_history,
     portfolio_values |-> portfolio_values, prev_rsi_oversold |-> prev_rsi_oversold,
     prev_rsi_overbought |-> prev_rsi_overbought,
     prev_macd_above_signal |-> prev_macd_above_signal, traded |-> last_step_traded]

\* the locals of a simulator before its loop
StartSimulator ==
    /\ i' = LoopStart(strategy_type, strategy_params)
    /\ cash' = initial_capital
    /\ asset' = Zero
    /\ trade_history' = <<>>
    /\ portfolio_values' = <<>>
    /\ prev_rsi_oversold' = FALSE
    /\ prev_rsi_overbought' = FALSE
    /\ prev_macd_above_signal' = FALSE
    /\ last_step_traded' = FALSE

\* enhance_trade_history reads trade["cash_balance"]: KeyError on a trade
\* dict that has no such key
enhance_trade_history_raises(trades) ==
    \E k \in 1..Len(trades) : ~trades[k].has_balances

\* the simulators that call calculate_portfolio_summary
SummaryStrategies == {"sma_crossover", "rsi_oversold", "breakout"}

MetricKeys == {"performance_metrics", "trade_history", "monthly_returns", "drawdown_periods"}

\* the keys of the dict a simulator returns
SimulatorResultKeys(strategy, trades) ==
    CASE strategy \in {"sma_crossover", "breakout"} -> MetricKeys \cup {"portfolio_summary"}
      [] strategy = "rsi_oversold" ->
            IF enhance_trade_history_raises(trades) THEN {"error"}
            ELSE MetricKeys \cup {"portfolio_summary"}
      [] strategy \in {"bollinger_bands", "macd_signal"} -> MetricKeys

\* one iteration of the simulator's for loop
SimStep ==
    /\ pc = "simulate"
    /\ i < Len(candles)
    /\ \E st \in {SimulatorStep(strategy_type, SimState, candles, i, strategy_params,
                                  commission_rate, initial_capital)} :
           /\ cash' = st.cash
           /\ asset' = st.asset
           /\ trade_history' = st.trade_history
           /\ portfolio_values' = st.portfolio_values
           /\ prev_rsi_oversold' = st.prev_rsi_oversold
           /\ prev_rsi_overbought' = st.prev_rsi_overbought
           /\ prev_macd_above_signal' = st.prev_macd_above_signal
           /\ last_step_traded' = st.traded
    /\ i' = i + 1
    /\ sim_steps' = sim_steps + 1
    /\ UNCHANGED <<request_vars, upstream_vars, pc, collect_vars, candles, final_value, metrics, chart_result, result>>

\* after the loop: final_value = cash + asset * closes[-1], then the result dict
SimReturn ==
    /\ pc = "simulate"
    /\ i >= Len(candles)
    /\ final_value' = FinalValue(cash, asset, candles)
    /\ metrics' = ComputedMetrics(portfolio_values, trade_history,
                                  strategy_type \in SummaryStrategies,
                                  initial_capital, cash, asset,
                                  R(candles[Len(candles)].trade_price))
    /\ result' = [keys |-> SimulatorResultKeys(strategy_type, trade_history),
                  chart_generated |-> FALSE, message |-> <<>>]
    /\ pc' = "assemble"
    /\ UNCHANGED <<request_vars, upstream_vars, collect_vars, sim_vars, chart_result>>

\* a simulator called on its own with a valid request and a candle series
InitSim ==
    /\ strategy_type \in SupportedStrategies
    /\ strategy_params \in ValidParams(strategy_type)
    /\ start_date = 1
    /\ end_date = 4
    /\ initial_capital = R(DefaultCapital)
    /\ commission_rate \in {Zero, Norm(1, 10)}
    /\ generate_chart = FALSE
    /\ market = {}
    /\ upstream = "none"
    /\ pc = "simulate"
    /\ current_to = 0
    /\ call_count = 0
    /\ retry = 0
    /\ page = [kind |-> "none", candles |-> <<>>]
    /\ all_candles = <<>>
    /\ get_candles_calls = 0
    /\ sleeps = <<>>
    /\ \E n \in SeriesLengths(strategy_type, strategy_params) :
         \E closes \in [1..n -> 1..MaxPrice] :
            \E wick \in SeriesWicks(strategy_type, strategy_params) :
                candles = Series(n, closes, wick)
    /\ i = LoopStart(strategy_type, strategy_params)
    /\ cash = initial_capital
    /\ asset = Zero
    /\ trade_history = <<>>
    /\ portfolio_values = <<>>
    /\ prev_rsi_oversold = FALSE
    /\ prev_rsi_overbought = FALSE
    /\ prev_macd_above_signal = FALSE
    /\ last_step_traded = FALSE
    /\ sim_steps = 0
    /\ final_value = NaN
    /\ metrics = NoMetrics
    /\ chart_result = "none"
    /\ result = NoResult

(***************************************************************************)
(* backtesting(): the orchestrator                                         *)
(***************************************************************************)
\* the checks before any data is fetched; a valid request enters
\* collect_candle_data, whose locals are initialised here
Validate ==
    /\ pc = "validate"
    /\ IF ValidateRequest(strategy_type, strategy_params, start_date, end_date,
                          initial_capital, commission_rate) = "error"
       THEN /\ result' = ErrorResult
            /\ pc' = "done"
            /\ UNCHANGED <<current_to, call_count, all_candles>>
       ELSE /\ all_candles' = <<>>
            /\ current_to' = FirstCursor(end_date)
            /\ call_count' = 0
            /\ pc' = "page"
            /\ UNCHANGED result
    /\ UNCHANGED <<request_vars, upstream_vars, retry, page, get_candles_calls, sleeps,
                   sim_vars, final_value, metrics, chart_result>>

\* the minimum-count check on the collected candles and the dispatch to the
\* simulator; a tag no branch matches leaves `result` unbound, and the
\* UnboundLocalError is caught by the outer except
CheckMinimum ==
    /\ pc = "check"
    /\ IF Len(candles) < MinRequiredCandles(strategy_type, strategy_params)
       THEN /\ result' = InsufficientData(MinRequiredCandles(strategy_type, strategy_params),
                                           Len(candles))
            /\ pc' = "done"
            /\ UNCHANGED <<i, cash, asset, trade_history, portfolio_values,
                           prev_rsi_oversold, prev_rsi_overbought,
                           prev_macd_above_signal, last_step_traded>>
       ELSE IF strategy_type \notin SupportedStrategies
       THEN /\ result' = ErrorResult
            /\ pc' = "done"
            /\ UNCHANGED <<i, cash, asset, trade_history, portfolio_values,
                           prev_rsi_oversold, prev_rsi_overbought,
                           prev_macd_above_signal, last_step_traded>>
       ELSE /\ StartSimulator
            /\ pc' = "simulate"
            /\ UNCHANGED result
    /\ UNCHANGED <<request_vars, upstream_vars, collect_vars, candles, sim_steps,
                   final_value, metrics, chart_result>>

\* what generate_backtest_chart can come to: it returns success, returns
\* success = False, or raises
ChartOutcomes == {"success", "failure", "raised"}

\* the keys backtesting() adds to a simulator's dict
AddedKeys == {"strategy_info", "user_guidance", "capital_independent_metrics", "chart_info"}

\* whether backtesting() gets as far as the chart section after the simulator
\* returned `simulated`: result['portfolio_summary'] is read when the capital is the default, and
\* result['performance_metrics'] always; a missing key is a KeyError, which
\* the outer except turns into {"error": ...}
ReachesChart(simulated, capital) ==
    /\ ~(capital = R(DefaultCapital) /\ "portfolio_summary" \notin simulated.keys)
    /\ "performance_metrics" \in simulated.keys

\* a chart step whose exception escapes to the outer except
AssembleResultChartRaises(simulated, capital, want_chart, chart) ==
    IF ~ReachesChart(simulated, capital) THEN ErrorResult
    ELSE IF want_chart /\ chart = "raised" THEN ErrorResult
    ELSE [keys |-> simulated.keys \cup AddedKeys,
          chart_generated |-> want_chart /\ chart = "success", message |-> <<>>]

\* the rest of backtesting() after the simulator returned `simulated`; the
\* chart section has its own try/except, so a chart that fails or raises
\* only leaves chart_generated False
AssembleResult(simulated, capital, want_chart, chart) ==
    IF ~ReachesChart(simulated, capital) THEN ErrorResult
    ELSE [keys |-> simulated.keys \cup AddedKeys,
          chart_generated |-> want_chart /\ chart = "success", message |-> <<>>]

Assemble ==
    /\ pc = "assemble"
    /\ \E chart \in ChartOutcomes :
        /\ result' = AssembleResult(result, initial_capital, generate_chart, chart)
        /\ chart_result' = IF generate_chart /\ ReachesChart(result, initial_capital)
                           THEN chart ELSE "none"
    /\ pc' = "done"
    /\ UNCHANGED <<request_vars, upstream_vars, collect_vars, sim_vars, final_value, metrics>>

\* the arguments the model calls backtesting() with
DateChoices == {<<BadDate, 4>>, <<1, BadDate>>, <<4, 4>>, <<4, 1>>, <<1, 4>>}
CapitalChoices == {R(0), R(500), R(DefaultCapital)}
RateChoices == {Norm(-1, 10), Zero, Norm(1, 10), Norm(1, 5)}
StrategyChoices == SupportedStrategies \cup {"custom", "momentum"}

IdleCollector ==
    /\ current_to = 0
    /\ call_count = 0
    /\ retry = 0
    /\ page = [kind |-> "none", candles |-> <<>>]
    /\ all_candles = <<>>
    /\ get_candles_calls = 0
    /\ sleeps = <<>>

IdleSimulator ==
    /\ candles = <<>>
    /\ i = 0
    /\ cash = Zero
    /\ asset = Zero
    /\ trade_history = <<>>
    /\ portfolio_values = <<>>
    /\ prev_rsi_oversold = FALSE
    /\ prev_rsi_overbought = FALSE
    /\ prev_macd_above_signal = FALSE
    /\ last_step_traded = FALSE
    /\ sim_steps = 0
    /\ final_value = NaN
    /\ metrics = NoMetrics
    /\ chart_result = "none"
    /\ result = NoResult

\* a call of backtesting() against an exchange that keeps its contract
Init ==
    /\ strategy_type \in StrategyChoices
    /\ strategy_params \in ParamChoices(strategy_type)
    /\ \E d \in DateChoices : start_date = d[1] /\ end_date = d[2]
    /\ initial_capital \in CapitalChoices
    /\ commission_rate \in RateChoices
    /\ generate_chart \in BOOLEAN
    /\ market \in Markets
    /\ upstream = "honest"
    /\ pc = "validate"
    /\ IdleCollector
    /\ IdleSimulator

Next ==
    \/ Validate
    \/ BeginPage
    \/ FetchAttempt
    \/ ProcessPage
    \/ CollectReturn
    \/ CheckMinimum
    \/ SimStep
    \/ SimReturn
    \/ Assemble

Spec == Init /\ [][Next]_vars

\* collect_candle_data on its own, for one valid request, against an exchange
\* that may answer any page
\* (the exchange also holds candles later than the requested end date)
CollectMarket == MarketOf(0..7, "flat")

InitCollect ==
    /\ strategy_type = "sma_crossover"
    /\ strategy_params = [NoParams EXCEPT !.fast_period = 1, !.slow_period = 2]
    /\ start_date = 1
    /\ end_date = 2
    /\ initial_capital = R(DefaultCapital)
    /\ commission_rate = Zero
    /\ generate_chart = FALSE
    /\ market = CollectMarket
    /\ upstream = "any"
    /\ pc = "page"
    /\ current_to = FirstCursor(end_date)
    /\ call_count = 0
    /\ retry = 0
    /\ page = [kind |-> "none", candles |-> <<>>]
    /\ all_candles = <<>>
    /\ get_candles_calls = 0
    /\ sleeps = <<>>
    /\ IdleSimulator

NextCollect == BeginPage \/ FetchAttempt \/ ProcessPage \/ CollectReturn

SpecCollect == InitCollect /\ [][NextCollect]_vars

NextSim == SimStep \/ SimReturn

SpecSim == InitSim /\ [][NextSim]_vars

(***************************************************************************)
(* The metric functions on their own (specification SpecMetrics): an       *)
(* equity curve or a trade ledger of any shape, then the functions         *)
(***************************************************************************)
\* an equity curve of n points: positive values, one point per tick
Curve(n, v) == [k \in 1..n |-> [date |-> CandleTick(k - 1), value |-> R(v[k])]]

\* the entries of a trade ledger of any shape: BUYs and SELLs in any order,
\* at prices 1 or 2, with quantity 0 or 1
LedgerEntries == {<<a, p, q>> : a \in {"BUY", "SELL"}, p \in {1, 2}, q \in {0, 1}}

\* a ledger of n such entries, one per tick
Ledger(n, e) ==
    [k \in 1..n |-> Trade(CandleTick(k - 1), e[k][1], R(e[k][2]), R(e[k][3]),
                          Zero, TRUE, Zero, Zero)]

\* a sawtooth curve: from 3 the equity falls by depth[j], 1 or 2, and then
\* rises one above the peak it fell from, `teeth` times over; with a tail it
\* ends one below its last peak, a decline that never recovers
SawtoothValue(teeth, depth, k) ==
    IF k % 2 = 1 THEN 3 + (k - 1) \div 2
    ELSE IF k \div 2 <= teeth THEN 2 + k \div 2 - depth[k \div 2]
    ELSE 2 + teeth

Sawtooth(teeth, depth, tail) ==
    Curve(1 + 2 * teeth + tail, [k \in 1..(1 + 2 * teeth + tail) |-> SawtoothValue(teeth, depth, k)])

InitMetrics ==
    /\ strategy_type = "sma_crossover"
    /\ strategy_params = [NoParams EXCEPT !.fast_period = 1, !.slow_period = 2]
    /\ start_date = 1
    /\ end_date = 4
    /\ initial_capital = R(DefaultCapital)
    /\ commission_rate = Zero
    /\ generate_chart = FALSE
    /\ market = {}
    /\ upstream = "none"
    /\ pc = "metrics"
    /\ IdleCollector
    /\ candles = <<>>
    /\ i = 0
    /\ cash = initial_capital
    /\ asset = Zero
    /\ \/ /\ \E n \in 0..MaxCurveLen : \E v \in [1..n -> 1..MaxValue] :
                 portfolio_values = Curve(n, v)
          /\ trade_history = <<>>
       \/ /\ \E teeth \in 1..MaxTeeth : \E depth \in [1..teeth -> {1, 2}] :
                \E tail \in {0, 1} : portfolio_values = Sawtooth(teeth, depth, tail)
          /\ trade_history = <<>>
       \/ /\ portfolio_values = <<>>
          /\ \E n \in 0..MaxTrades : \E e \in [1..n -> LedgerEntries] :
                 trade_history = Ledger(n, e)
    /\ prev_rsi_oversold = FALSE
    /\ prev_rsi_overbought = FALSE
    /\ prev_macd_above_signal = FALSE
    /\ last_step_traded = FALSE
    /\ sim_steps = 0
    /\ final_value = NaN
    /\ metrics = NoMetrics
    /\ chart_result = "none"
    /\ result = NoResult

\* calculate_max_drawdown, calculate_drawdown_periods, calculate_trade_metrics
\* and calculate_portfolio_summary applied to the curve and the ledger
ApplyMetrics ==
    /\ pc = "metrics"
    /\ metrics' = ComputedMetrics(portfolio_values, trade_history, TRUE,
                                  initial_capital, cash, asset, One)
    /\ pc' = "measured"
    /\ UNCHANGED <<request_vars, upstream_vars, collect_vars, sim_vars, final_value,
                   result, chart_result>>

NextMetrics == ApplyMetrics

SpecMetrics == InitMetrics /\ [][NextMetrics]_vars

(***************************************************************************)
(* Properties of backtesting() as a whole (specification Spec)             *)
(***************************************************************************)
RequiredResultKeys ==
    {"performance_metrics", "trade_history", "monthly_returns", "drawdown_periods",
     "portfolio_summary", "strategy_info"}

\* collection succeeded and returned at least the strategy's minimum
EnoughCandles ==
    /\ candles /= <<>>
    /\ Len(candles) >= MinRequiredCandles(strategy_type, strategy_params)

\* C1: a run of any of the five strategies with valid parameters and enough
\* candles ends with a result that carries performance_metrics,
\* trade_history, monthly_returns, drawdown_periods, portfolio_summary and
\* strategy_info and no error, whether or not a trade occurred.
C1_CompleteResult ==
    (pc = "done" /\ strategy_type \in SupportedStrategies /\ EnoughCandles)
        => (RequiredResultKeys \subseteq result.keys /\ "error" \notin result.keys)

\* the input rules, as the interface states them
ViolatesDateRule ==
    \/ ~ParsesAsDate(start_date)
    \/ ~ParsesAsDate(end_date)
    \/ start_date >= end_date

ViolatesMoneyRule ==
    \/ RLe(initial_capital, Zero)
    \/ RLt(commission_rate, Zero)
    \/ RGt(commission_rate, Norm(1, 10))

ViolatesParamRule ==
    LET p == strategy_params
    IN  \/ /\ strategy_type \in {"sma_crossover", "macd_signal"}
           /\ (p.fast_period >= p.slow_period \/ p.fast_period < 1 \/ p.slow_period < 1)
        \/ /\ strategy_type = "macd_signal"
           /\ p.signal_period < 1
        \/ /\ strategy_type = "rsi_oversold"
           /\ \/ p.rsi_period < 2
              \/ ~(RLe(Zero, p.oversold_threshold)
                   /\ RLt(p.oversold_threshold, p.overbought_threshold)
                   /\ RLe(p.overbought_threshold, R(100)))
        \/ /\ strategy_type = "bollinger_bands"
           /\ \/ p.period < 2
              \/ ~(RLe(Zero, p.buy_threshold)
                   /\ RLt(p.buy_threshold, p.sell_threshold)
                   /\ RLe(p.sell_threshold, One))
        \/ /\ strategy_type = "breakout"
           /\ \/ p.lookback <= p.exit_lookback
              \/ p.lookback < 1
              \/ p.exit_lookback < 1
              \/ p.atr_period < 1

ViolatesInputRule == ViolatesDateRule \/ ViolatesMoneyRule \/ ViolatesParamRule

\* C2: a request that violates an input rule never gets past validation: no
\* get_candles call is made, no simulation step runs, and the run ends with
\* an error result.
C2_InvalidRequestFailsFast ==
    ViolatesInputRule =>
        /\ pc \in {"validate", "done"}
        /\ get_candles_calls = 0
        /\ sim_steps = 0
        /\ (pc = "done" => "error" \in result.keys)

\* a breakout request whose only fault is lookback <= exit_lookback, rejected
C2_Witness ==
    /\ pc = "done"
    /\ "error" \in result.keys
    /\ get_candles_calls = 0
    /\ strategy_type = "breakout"
    /\ strategy_params.lookback >= 1
    /\ strategy_params.exit_lookback >= strategy_params.lookback
    /\ strategy_params.atr_period >= 1
    /\ ~ViolatesDateRule
    /\ ~ViolatesMoneyRule

\* C3: a strategy tag other than the five implemented ones is rejected
\* before any candle page is fetched: zero get_candles calls, error result.
C3_UnsupportedRejectedEarly ==
    strategy_type \notin SupportedStrategies =>
        /\ get_candles_calls = 0
        /\ (pc = "done" => "error" \in result.keys)

(***************************************************************************)
(* Properties of collect_candle_data (specification SpecCollect)           *)
(***************************************************************************)
\* C4: collection stops after at most MaxCalls page fetches of at most
\* MaxRetries get_candles attempts each; it ends either with a non-empty
\* candle sequence or with an error; and a range that needs more than
\* MaxCalls pages ends with an error, never with the candles gathered so far.
C4_CollectionBounded ==
    /\ call_count <= MaxCalls + 1
    /\ get_candles_calls <= call_count * MaxRetries
    /\ get_candles_calls <= MaxCalls * MaxRetries
    /\ (pc = "fetch" => call_count <= MaxCalls /\ retry < MaxRetries)
    /\ (pc = "check" => candles /= <<>> /\ "error" \notin result.keys)
    /\ (pc = "done" => "error" \in result.keys /\ candles = <<>>)
    /\ (call_count > MaxCalls => pc = "done")

\* the page ceiling was hit after MaxCalls full pages had been gathered
C4_Witness ==
    /\ pc = "done"
    /\ call_count = MaxCalls + 1
    /\ get_candles_calls >= MaxCalls
    /\ Len(all_candles) >= MaxCalls * PageSize
    /\ "error" \in result.keys

\* C5: the sequence a successful collection returns is strictly ascending
\* by timestamp (so free of duplicates), whatever pages the exchange served.
C5_StrictlyAscending ==
    pc = "check" =>
        \A k \in 1..(Len(candles) - 1) : candles[k].ts < candles[k + 1].ts

\* C6: every candle a successful collection returns is dated within
\* [start_date, end_date].
C6_WithinRequestedRange ==
    pc = "check" =>
        \A k \in 1..Len(candles) :
            /\ start_date <= DateOf(candles[k].ts)
            /\ DateOf(candles[k].ts) <= end_date

\* a success whose last page held a candle dated before start_date, which
\* the filter dropped, and whose result reaches the last day of the range
C6_Witness ==
    /\ pc = "check"
    /\ \E k \in 1..Len(page.candles) : DateOf(page.candles[k].ts) < start_date
    /\ \E k \in 1..Len(candles) : DateOf(candles[k].ts) = end_date
    /\ \E k \in 1..Len(candles) : DateOf(candles[k].ts) = start_date

(***************************************************************************)
(* Properties of the five simulators (specification SpecSim)               *)
(***************************************************************************)
Flat == RGt(cash, Zero) /\ asset = Zero
Long == cash = Zero /\ RGt(asset, Zero)

\* C7: after every step of every simulator the position is either all cash
\* (cash > 0, asset = 0) or all asset (cash = 0, asset > 0), never both.
C7_AllInOrAllOut ==
    (Flat \/ Long) /\ ~(Flat /\ Long)

\* a simulator that has bought, sold and bought again
C7_Witness ==
    /\ sim_steps > 0
    /\ Len(trade_history) = 3
    /\ Long

TradeActions == [k \in 1..Len(trade_history) |-> trade_history[k].action]

Alternates ==
    \A k \in 1..Len(trade_history) :
        trade_history[k].action = IF k % 2 = 1 THEN "BUY" ELSE "SELL"

\* a step appends at most one trade: a BUY when flat, a SELL when long
AtMostOneTrade ==
    \/ trade_history' = trade_history
    \/ /\ Len(trade_history') = Len(trade_history) + 1
       /\ SubSeq(trade_history', 1, Len(trade_history)) = trade_history
       /\ trade_history'[Len(trade_history')].date = candles[i + 1].ts
       /\ trade_history'[Len(trade_history')].action = IF asset = Zero THEN "BUY" ELSE "SELL"

\* C8: the trade ledger reads BUY, SELL, BUY, ... starting with a BUY, and
\* no candle step records more than one trade.
C8_LedgerAlternates ==
    [](Alternates) /\ [][AtMostOneTrade]_vars

\* a ledger BUY, SELL, BUY, SELL
C8_Witness ==
    /\ Len(trade_history) = 4
    /\ TradeActions = <<"BUY", "SELL", "BUY", "SELL">>

\* C9: when a simulator returns, its equity curve has one point per input
\* candle, in candle order.
C9_OnePointPerCandle ==
    pc = "assemble" =>
        /\ Len(portfolio_values) = Len(candles)
        /\ \A k \in 1..Len(portfolio_values) : portfolio_values[k].date = candles[k].ts

LastPoint == portfolio_values[Len(portfolio_values)]

\* C10 as stated: the final value a simulator reports equals the value of
\* the last equity-curve point, also when a trade fires on the last candle.
C10_FinalEqualsLastPoint ==
    (pc = "assemble" /\ portfolio_values /= <<>>)
        => final_value = LastPoint.value

\* C10 amended: with a non-empty equity curve, the final value equals the
\* last point's value when no trade fired on the last candle, and that value
\* times (1 - commission_rate) when one did.
C10_FinalIsLastPointNetOfCommission ==
    (pc = "assemble" /\ portfolio_values /= <<>>)
        => final_value = IF last_step_traded
                         THEN RMul(LastPoint.value, RSub(One, commission_rate))
                         ELSE LastPoint.value

\* a run that traded on its last candle at a commission rate above zero
C10_Witness ==
    /\ pc = "assemble"
    /\ portfolio_values /= <<>>
    /\ last_step_traded
    /\ RGt(commission_rate, Zero)
    /\ final_value /= LastPoint.value

(***************************************************************************)
(* Properties of the drawdown functions (specification SpecMetrics)        *)
(***************************************************************************)
\* C11: for every equity curve, calculate_max_drawdown is <= 0 and at least
\* as deep as every episode calculate_drawdown_periods returns for it.
C11_MaxDrawdownBoundsEpisodes ==
    pc = "measured" =>
        /\ RLe(metrics.max_drawdown, Zero)
        /\ \A k \in 1..Len(metrics.drawdown_periods) :
              RLe(RAbs(metrics.drawdown_periods[k].drawdown), RAbs(metrics.max_drawdown))

\* a curve with a recovered episode and a deeper, unrecovered fall after it
C11_Witness ==
    /\ pc = "measured"
    /\ Len(metrics.drawdown_periods) >= 1
    /\ RLt(metrics.drawdown_periods[1].drawdown, Zero)
    /\ RLt(metrics.max_drawdown, metrics.drawdown_periods[1].drawdown)

(***************************************************************************)
(* Scenario properties of the simulators (specification SpecSim)           *)
(***************************************************************************)
\* the average of the n closes that end at source index idx
AverageClose(idx, n) ==
    RDiv(RSum([k \in 1..n |-> R(candles[idx - n + k + 1].trade_price)], 0, n - 1), R(n))

\* the fast average neither rises through nor falls through the slow one at
\* any index where both averages exist at it and at the index before
NeverCrosses ==
    LET fast == strategy_params.fast_period
        slow == strategy_params.slow_period
    IN  \A idx \in slow..(Len(candles) - 1) :
            LET prev == RSub(AverageClose(idx - 1, fast), AverageClose(idx - 1, slow))
                curr == RSub(AverageClose(idx, fast), AverageClose(idx, slow))
            IN  /\ ~(RLe(prev, Zero) /\ RGt(curr, Zero))
                /\ ~(RGe(prev, Zero) /\ RLt(curr, Zero))

\* C12: the SMA-crossover simulator, on a series on which the fast SMA never
\* crosses the slow SMA, keeps its ledger empty, charges no commission and
\* ends with final value = initial capital.
C12_NoCrossNoTrade ==
    (strategy_type = "sma_crossover" /\ NeverCrosses) =>
        /\ trade_history = <<>>
        /\ cash = initial_capital
        /\ asset = Zero
        /\ (pc = "assemble" => final_value = initial_capital /\ metrics.total_trades = 0)

\* a finished run at a commission above zero on a series whose closes move
\* without a cross
C12_Witness ==
    /\ pc = "assemble"
    /\ strategy_type = "sma_crossover"
    /\ NeverCrosses
    /\ RGt(commission_rate, Zero)
    /\ \E k \in 1..(Len(candles) - 1) : candles[k].trade_price /= candles[k + 1].trade_price
    /\ Len(portfolio_values) >= 2
    /\ final_value = initial_capital

\* the RSI of the series, as the simulator sees it
RsiSeries == calculate_rsi(Closes(candles), strategy_params.rsi_period)

\* the source indices at which the RSI enters the zone at or below `level`,
\* and at or above it
DipsTo(level) ==
    {idx \in strategy_params.rsi_period..(Len(candles) - 1) :
        /\ RLe(At(RsiSeries, idx), level)
        /\ (idx = strategy_params.rsi_period \/ ~RLe(At(RsiSeries, idx - 1), level))}

RisesTo(level) ==
    {idx \in strategy_params.rsi_period..(Len(candles) - 1) :
        /\ RGe(At(RsiSeries, idx), level)
        /\ (idx = strategy_params.rsi_period \/ ~RGe(At(RsiSeries, idx - 1), level))}

\* oversold = 30, overbought = 70, one dip to <= 30 and, later, one rise to >= 70
OneDipThenOneRise ==
    /\ strategy_type = "rsi_oversold"
    /\ strategy_params.oversold_threshold = R(30)
    /\ strategy_params.overbought_threshold = R(70)
    /\ Cardinality(DipsTo(R(30))) = 1
    /\ Cardinality(RisesTo(R(70))) = 1
    /\ \A d \in DipsTo(R(30)) : \A u \in RisesTo(R(70)) : d < u

\* C13: the RSI strategy with oversold = 30 and overbought = 70, on a series
\* whose RSI dips to <= 30 once and later rises to >= 70 once, returns a
\* result whose trade history is one BUY followed by one SELL.
C13_OneBuyThenOneSell ==
    (pc = "assemble" /\ OneDipThenOneRise) =>
        /\ "error" \notin result.keys
        /\ "trade_history" \in result.keys
        /\ TradeActions = <<"BUY", "SELL">>

\* the close at source index idx is above every high of the `lookback`
\* candles before it, or below every low of the `exit_lookback` candles
\* before it
BreaksOut(idx) ==
    /\ idx >= strategy_params.lookback
    /\ \A k \in (idx - strategy_params.lookback)..(idx - 1) :
          candles[idx + 1].trade_price > candles[k + 1].high_price

BreaksDown(idx) ==
    /\ idx >= strategy_params.exit_lookback
    /\ \A k \in (idx - strategy_params.exit_lookback)..(idx - 1) :
          candles[idx + 1].trade_price < candles[k + 1].low_price

\* the step at candle i appends a trade of this kind, dated at that candle
StepAppends(action) ==
    /\ Len(trade_history') = Len(trade_history) + 1
    /\ trade_history'[Len(trade_history')].action = action
    /\ trade_history'[Len(trade_history')].date = candles[i + 1].ts

\* C14: in the breakout simulator with the ATR filter off, a step buys
\* exactly when the position is flat and the close exceeds the highest high
\* of the prior `lookback` candles, and sells exactly when the position is
\* long and the close is below the lowest low of the prior `exit_lookback`
\* candles; so the BUY and the SELL fire at the first such steps.
C14_BreakoutEntryAndExit ==
    [][(strategy_type = "breakout" /\ ~strategy_params.atr_filter
        /\ pc = "simulate" /\ i < Len(candles))
       => /\ StepAppends("BUY") <=> (asset = Zero /\ BreaksOut(i))
          /\ StepAppends("SELL") <=> (RGt(asset, Zero) /\ BreaksDown(i))]_vars

\* a breakout run without the ATR filter that entered and later exited
C14_Witness ==
    /\ strategy_type = "breakout"
    /\ ~strategy_params.atr_filter
    /\ pc = "assemble"
    /\ TradeActions = <<"BUY", "SELL">>
    /\ trade_history[1].date < trade_history[2].date

RECURSIVE PairedProfit(_, _)
\* the sum of (sell price - buy price) * quantity over the ledger's pairs,
\* the k-th pair being the 2k-1st and 2k-th entries of an alternating ledger
PairedProfit(trades, k) ==
    IF 2 * k > Len(trades) THEN Zero
    ELSE RAdd(RMul(RSub(trades[2 * k].price, trades[2 * k - 1].price),
                   trades[2 * k - 1].quantity),
              PairedProfit(trades, k + 1))

\* the simulator's result reports a realized profit
ReportsRealizedProfit == "portfolio_summary" \in result.keys

\* C15: with a commission rate of 0, every strategy's result reports a
\* realized_profit equal to the sum over its BUY/SELL pairs of
\* (sell price - buy price) * quantity.
C15_ZeroCommissionRealizedProfit ==
    (pc = "assemble" /\ commission_rate = Zero)
        => /\ ReportsRealizedProfit
           /\ metrics.realized_profit = PairedProfit(trade_history, 1)

(***************************************************************************)
(* Error handling of backtesting() (specification Spec)                    *)
(***************************************************************************)
\* the chart was attempted and did not succeed
ChartFailed == chart_result \in {"failure", "raised"}

\* C16: when the chart step returns success = False or raises, backtesting()
\* still returns everything the simulator returned together with the keys it
\* adds itself, chart_info among them with chart_generated False, and no
\* top-level 'error' key.
C16_ChartFailureKeepsResult ==
    (pc = "done" /\ ChartFailed)
        => /\ "error" \notin result.keys
           /\ SimulatorResultKeys(strategy_type, trade_history) \subseteq result.keys
           /\ AddedKeys \subseteq result.keys
           /\ ~result.chart_generated

\* a backtest that traded and whose chart step raised
C16_Witness ==
    /\ pc = "done"
    /\ chart_result = "raised"
    /\ trade_history /= <<>>
    /\ "trade_history" \in result.keys

\* the minimum candle count of each supported strategy
StrategyMinimum ==
    LET p == strategy_params
        Largest(S) == CHOOSE n \in S : \A m \in S : m <= n
    IN  CASE strategy_type = "sma_crossover" -> Largest({p.fast_period, p.slow_period})
          [] strategy_type = "rsi_oversold" -> p.rsi_period + 1
          [] strategy_type = "bollinger_bands" -> p.period
          [] strategy_type = "macd_signal" ->
                Largest({p.fast_period, p.slow_period}) + p.signal_period
          [] strategy_type = "breakout" ->
                Largest({p.lookback, p.exit_lookback, p.atr_period}) + 5

\* collection has returned fewer candles than the strategy needs
TooFewCandles ==
    /\ strategy_type \in SupportedStrategies
    /\ candles /= <<>>
    /\ Len(candles) < StrategyMinimum

\* C17: when collection returns fewer candles than the strategy's minimum,
\* backtesting() ends with an error that names the required and the actual
\* count, and no simulation step is ever executed.
C17_TooFewCandlesIsError ==
    TooFewCandles
        => /\ pc \in {"check", "done"}
           /\ sim_steps = 0
           /\ trade_history = <<>> /\ portfolio_values = <<>>
           /\ get_candles_calls > 0
           /\ pc = "done"
                => /\ "error" \in result.keys
                   /\ result.message = <<"insufficient_data", StrategyMinimum, Len(candles)>>

\* a breakout request that ended on the shortfall with some candles collected
C17_Witness ==
    /\ pc = "done"
    /\ strategy_type = "breakout"
    /\ TooFewCandles
    /\ Len(candles) >= strategy_params.lookback
    /\ result.message = <<"insufficient_data", StrategyMinimum, Len(candles)>>

(***************************************************************************)
(* Properties of the trade metrics (specification SpecMetrics)             *)
(***************************************************************************)
\* the ledger positions of the BUYs, and of the SELLs
PositionsOf(action) == {k \in 1..Len(trade_history) : trade_history[k].action = action}

\* the position of the n-th trade of a kind
NthOf(action, n) ==
    CHOOSE k \in PositionsOf(action) :
        Cardinality({j \in PositionsOf(action) : j <= k}) = n

\* the number of pairs: the n-th BUY goes with the n-th SELL
PairCount ==
    IF Cardinality(PositionsOf("BUY")) < Cardinality(PositionsOf("SELL"))
    THEN Cardinality(PositionsOf("BUY")) ELSE Cardinality(PositionsOf("SELL"))

\* the profit of the n-th pair: what the sale brought less what the buy cost
PairProfit(n) ==
    LET buy == trade_history[NthOf("BUY", n)]
        sell == trade_history[NthOf("SELL", n)]
    IN  RSub(RMul(sell.price, sell.quantity), RMul(buy.price, buy.quantity))

RECURSIVE SumOfPairs(_, _)
\* the sum of the profits of the pairs from the n-th on that lie on one side
\* of zero: the gains when `gains`, else the losses
SumOfPairs(n, gains) ==
    IF n > PairCount THEN Zero
    ELSE RAdd(IF (gains /\ RGt(PairProfit(n), Zero)) \/ (~gains /\ RLt(PairProfit(n), Zero))
              THEN PairProfit(n) ELSE Zero,
              SumOfPairs(n + 1, gains))

HasLosingPair == \E n \in 1..PairCount : RLt(PairProfit(n), Zero)
HasWinningPair == \E n \in 1..PairCount : RGt(PairProfit(n), Zero)

\* sum of the positive pair profits over the size of the sum of the negative
GainsOverLosses == RDiv(SumOfPairs(1, TRUE), RAbs(SumOfPairs(1, FALSE)))

\* C18 as stated: for every ledger the profit factor is the sum of the
\* positive pair profits over the absolute sum of the negative ones, and
\* +infinity whenever no pair has a negative profit.
C18_ProfitFactorInfiniteWithoutLoss ==
    pc = "measured"
        => metrics.profit_factor = IF HasLosingPair THEN GainsOverLosses ELSE Infinity

\* C18: the profit factor is the sum of the positive pair profits over the
\* absolute sum of the negative ones when some pair loses, +infinity when
\* there is at least one pair and none loses, and 0 when the ledger has no
\* BUY/SELL pair at all.
C18_ProfitFactorOfPairs ==
    pc = "measured"
        => metrics.profit_factor =
              IF PairCount = 0 THEN Zero
              ELSE IF HasLosingPair THEN GainsOverLosses
              ELSE Infinity

\* a ledger with pairs of which none loses, measured as +infinity
C18_Witness ==
    /\ pc = "measured"
    /\ PairCount = 2
    /\ HasWinningPair /\ ~HasLosingPair
    /\ metrics.profit_factor = Infinity

(***************************************************************************)
(* The retry loop of the collector (specification SpecCollect)             *)
(***************************************************************************)
\* collection ended with an error because the last answer for the current
\* page was a failed upstream response (an error list, rate limit included)
EndedOnFailedResponse ==
    /\ pc = "done"
    /\ "error" \in result.keys
    /\ page.kind \in {"error_list", "rate_limited"}

\* the attempts made for the current page when the retry loop was left
PageAttempts == retry + 1

\* C19: collection ends with an error on a failed upstream response (rate
\* limit, non-200 status, network error) only after the page has been
\* attempted 3 times; one failed response never ends it.
C19_PageErrorOnlyAfterThreeAttempts ==
    EndedOnFailedResponse => PageAttempts = MaxRetries

\* the waits the claim gives for the 1st, 2nd and 3rd attempt
RateLimitWaits == <<1, 2, 4>>

\* the k-th attempt for the current page was answered with a rate limit
RateLimitedAttempt(k) == k <= Len(sleeps) /\ sleeps[k].after = "rate_limited"

\* C20: a rate-limited k-th attempt for a page is followed by a wait of 1, 2
\* and 4 seconds for k = 1, 2, 3; no page gets a 4th attempt; and when the
\* 3rd attempt is rate-limited too, collection ends with an error without
\* adding a candle.
C20_RateLimitBackoff ==
    /\ [](/\ Len(sleeps) <= MaxRetries
          /\ pc = "fetch" => Len(sleeps) < MaxRetries
          /\ \A k \in 1..Len(sleeps) :
                RateLimitedAttempt(k) => sleeps[k].seconds = RateLimitWaits[k]
          /\ RateLimitedAttempt(MaxRetries) => pc \in {"process", "done"})
    /\ [][(RateLimitedAttempt(MaxRetries) /\ pc = "process")
            => /\ pc' = "done"
               /\ "error" \in result'.keys
               /\ all_candles' = all_candles
               /\ get_candles_calls' = get_candles_calls]_vars

\* three rate-limited attempts for one page, waited 1, 2 and 4 seconds, and
\* the collection ended with an error
C20_Witness ==
    /\ pc = "done"
    /\ "error" \in result.keys
    /\ sleeps = <<Sleep("rate_limited", 1), Sleep("rate_limited", 2),
                  Sleep("rate_limited", 4)>>

\* the page just fetched is full, lies wholly on or after the start date, and
\* its oldest (last) candle carries the timestamp of the cursor it was
\* requested with: the cursor cannot advance.  (Once the loop is left, the
\* page and the cursor are the ones of its last pass.)
CursorStuck ==
    /\ page.kind = "candles"
    /\ Len(page.candles) = PageSize
    /\ ~FilterPage(page.candles, start_date).found_before_start
    /\ page.candles[Len(page.candles)].ts = current_to

\* the candles of the last page are the tail of what was collected
PageIsTailOfCollected ==
    /\ Len(all_candles) >= Len(page.candles)
    /\ SubSeq(all_candles, Len(all_candles) - Len(page.candles) + 1, Len(all_candles))
          = page.candles

IndicatorsDefined(idx, action) ==
    LET p == strategy_params
        closes == Closes(candles)
        Defined(values, k) == k >= 0 /\ ~IsNaN(At(values, k))
    IN  CASE strategy_type = "sma_crossover" ->
                /\ Defined(calculate_sma(closes, p.fast_period), idx - 1)
                /\ Defined(calculate_sma(closes, p.slow_period), idx - 1)
                /\ Defined(calculate_sma(closes, p.fast_period), idx)
                /\ Defined(calculate_sma(closes, p.slow_period), idx)
          [] strategy_type = "rsi_oversold" ->
                Defined(calculate_rsi(closes, p.rsi_period), idx)
          [] strategy_type = "bollinger_bands" ->
                ~At(calculate_bollinger_bands(closes, p.period, p.std_dev), idx).undefined
          [] strategy_type = "macd_signal" ->
                LET macd == calculate_macd(closes, p.fast_period, p.slow_period,
                                           p.signal_period)
                IN  Defined(macd.macd_line, idx) /\ Defined(macd.signal_line, idx)
          [] strategy_type = "breakout" ->
                IF action = "BUY"
                THEN /\ Defined(calculate_rolling_high(Highs(candles), p.lookback), idx - 1)
                     /\ p.atr_filter =>
                           /\ idx >= p.atr_period
                           /\ Defined(calculate_atr(Highs(candles), Lows(candles), closes,
                                                    p.atr_period), idx)
                ELSE Defined(calculate_rolling_low(Lows(candles), p.exit_lookback), idx - 1)

\* C22: no simulator appends a trade at a step where an indicator it decides
\* that trade on is undefined; with atr_filter on, the breakout simulator
\* appends no BUY at a step where the ATR is undefined.
C22_NoTradeOnUndefinedIndicator ==
    [][(pc = "simulate" /\ i < Len(candles)
        /\ Len(trade_history') = Len(trade_history) + 1)
       => IndicatorsDefined(i, trade_history'[Len(trade_history')].action)]_vars

\* the MACD line crosses from on or below the signal line at idx - 1 to above
\* it at idx, both lines defined at both indices
MacdCrossesUp(idx) ==
    LET macd == calculate_macd(Closes(candles), strategy_params.fast_period,
                               strategy_params.slow_period, strategy_params.signal_period)
    IN  /\ idx >= 1
        /\ ~IsNaN(At(macd.macd_line, idx - 1)) /\ ~IsNaN(At(macd.signal_line, idx - 1))
        /\ ~IsNaN(At(macd.macd_line, idx)) /\ ~IsNaN(At(macd.signal_line, idx))
        /\ RLe(At(macd.macd_line, idx - 1), At(macd.signal_line, idx - 1))
        /\ RGt(At(macd.macd_line, idx), At(macd.signal_line, idx))

\* C23: the MACD simulator appends a BUY at step i only when the MACD line
\* crossed above the signal line between i - 1 and i; a MACD line that is
\* already above the signal line at the first evaluated step buys nothing.
C23_MacdBuyOnlyOnCross ==
    [][(strategy_type = "macd_signal" /\ pc = "simulate" /\ i < Len(candles)
        /\ StepAppends("BUY"))
       => MacdCrossesUp(i)]_vars

(***************************************************************************)
(* Cash, asset and the ledger entries (specification SpecSim)              *)
(***************************************************************************)
\* the close of the candle the step at i works on, and the portfolio value
\* at that close before and after the step
StepClose == R(candles[i + 1].trade_price)
ValueBefore == RAdd(cash, RMul(asset, StepClose))
ValueAfter == RAdd(cash', RMul(asset', StepClose))
KeptShare == RSub(One, commission_rate)

\* C24: in every simulator a step without a trade leaves cash and asset
\* unchanged; a BUY step turns all cash into cash * (1 - rate) / close of
\* asset, a SELL step turns all asset into asset * close * (1 - rate) of
\* cash, and either way the portfolio value right after the trade is the
\* value before it times (1 - rate).
C24_CashAndAssetChangeOnlyByTrade ==
    [][(pc = "simulate" /\ i < Len(candles))
       => /\ trade_history' = trade_history \/ StepAppends("BUY") \/ StepAppends("SELL")
          /\ trade_history' = trade_history => (cash' = cash /\ asset' = asset)
          /\ StepAppends("BUY")
                => /\ asset' = RDiv(RMul(cash, KeptShare), StepClose)
                   /\ cash' = Zero
                   /\ ValueAfter = RMul(ValueBefore, KeptShare)
          /\ StepAppends("SELL")
                => /\ cash' = RMul(RMul(asset, StepClose), KeptShare)
                   /\ asset' = Zero
                   /\ ValueAfter = RMul(ValueBefore, KeptShare)]_vars

\* a MACD run at a positive commission rate that bought and sold
C24_Witness ==
    /\ strategy_type = "macd_signal"
    /\ RGt(commission_rate, Zero)
    /\ pc = "assemble"
    /\ Len(trade_history) >= 2
    /\ trade_history[1].action = "BUY" /\ trade_history[2].action = "SELL"
    /\ trade_history[1].price /= trade_history[2].price

\* the ledger is one round trip sold above the price it was bought at
OneWinningRoundTrip ==
    /\ TradeActions = <<"BUY", "SELL">>
    /\ RGt(trade_history[2].price, trade_history[1].price)

\* C25: every SELL in the ledger records a quantity that is positive and
\* equal to the quantity of the BUY before it, which is the asset sold; and
\* at commission 0 a single round trip sold higher than bought has a
\* win_rate of 1.
C25_SellRecordsQuantitySold ==
    /\ \A k \in 1..Len(trade_history) :
          trade_history[k].action = "SELL"
             => /\ RGt(trade_history[k].quantity, Zero)
                /\ k > 1
                /\ trade_history[k - 1].action = "BUY"
                /\ trade_history[k].quantity = trade_history[k - 1].quantity
    /\ (pc = "assemble" /\ commission_rate = Zero /\ OneWinningRoundTrip)
          => metrics.win_rate = One

\* the entry the step appended
Appended == trade_history'[Len(trade_history')]

\* C26: the commission a trade records is the amount deducted at its step:
\* the cash before the trade times the rate for a BUY, and the quantity sold
\* times the price times the rate for a SELL, for every trade of the ledger.
C26_CommissionRecordedAsDeducted ==
    [][(pc = "simulate" /\ i < Len(candles))
       => /\ StepAppends("BUY") => Appended.commission = RMul(cash, commission_rate)
          /\ StepAppends("SELL")
                => Appended.commission = RMul(RMul(asset, StepClose), commission_rate)]_vars

(***************************************************************************)
(* Properties of the drawdown episodes (specification SpecMetrics)         *)
(***************************************************************************)
\* C27: every episode calculate_drawdown_periods returns is an actual
\* decline followed by a new peak: its drawdown is strictly negative (the
\* trough lies strictly below the peak) and its trough is dated after its
\* peak; a flat stretch followed by a rise yields no episode.
C27_EpisodesAreDeclines ==
    pc = "measured"
        => \A k \in 1..Len(metrics.drawdown_periods) :
              LET episode == metrics.drawdown_periods[k]
              IN  /\ RLt(episode.drawdown, Zero)
                  /\ episode.trough_date > episode.peak_date
                  /\ episode.recovery_date > episode.trough_date

\* the equity at point k of the curve
ValueAt(k) == portfolio_values[k].value

\* point r sets a new peak: its value exceeds every value before it
NewPeak(r) == r >= 2 /\ \A j \in 1..(r - 1) : RGt(ValueAt(r), ValueAt(j))

\* the peak standing before point r: the first point before r to carry the
\* highest value before r
PeakBefore(r) ==
    CHOOSE p \in 1..(r - 1) :
        /\ \A j \in 1..(r - 1) : RLe(ValueAt(j), ValueAt(p))
        /\ \A j \in 1..(p - 1) : RLt(ValueAt(j), ValueAt(p))

\* the trough between that peak and r: the first lowest point from the peak on
TroughBefore(r) ==
    CHOOSE t \in PeakBefore(r)..(r - 1) :
        /\ \A j \in PeakBefore(r)..(r - 1) : RLe(ValueAt(t), ValueAt(j))
        /\ \A j \in PeakBefore(r)..(t - 1) : RGt(ValueAt(j), ValueAt(t))

\* the recovered episodes of the curve, each named by the point that ends it:
\* a new peak reached after the equity had fallen below the peak before
RecoveredAt == {r \in 1..Len(portfolio_values) :
                    NewPeak(r) /\ RLt(ValueAt(TroughBefore(r)), ValueAt(PeakBefore(r)))}

\* the episode that ends at point r
EpisodeEndingAt(r) ==
    [peak_date |-> portfolio_values[PeakBefore(r)].date,
     trough_date |-> portfolio_values[TroughBefore(r)].date,
     recovery_date |-> portfolio_values[r].date,
     drawdown |-> RNeg(RDiv(RSub(ValueAt(PeakBefore(r)), ValueAt(TroughBefore(r))),
                            ValueAt(PeakBefore(r))))]

EndsFlat ==
    /\ pc = "assemble"
    /\ asset = Zero
    /\ Len(trade_history) % 2 = 0
    /\ Alternates

\* C29: when a simulation ends flat, the portfolio summary reports an
\* unrealized_profit of 0 and a realized_profit equal to absolute_profit,
\* which is the final cash minus the initial capital, at every commission
\* rate and for any number of round trips.
C29_FlatEndRealizedIsAbsolute ==
    (EndsFlat /\ ReportsRealizedProfit)
        => /\ metrics.absolute_profit = RSub(cash, initial_capital)
           /\ metrics.realized_profit = metrics.absolute_profit
           /\ metrics.unrealized_profit = Zero

(***************************************************************************)
(* The edge flags of the RSI simulator (specification SpecSim)             *)
(***************************************************************************)
\* the step at source index idx is evaluated: idx >= rsi_period and the RSI
\* is defined there
RsiEvaluated(idx) ==
    idx >= strategy_params.rsi_period /\ ~IsNaN(At(RsiSeries, idx))

RECURSIVE LevelTriggered(_, _, _, _)
\* the signals of the level-triggered variant over the source indices
\* idx..(n - 1) of a series whose RSI is rsi: BUY when flat and
\* RSI <= oversold, SELL when long and RSI >= overbought
LevelTriggered(rsi, idx, n, long) ==
    IF idx >= n THEN <<>>
    ELSE LET current_rsi == At(rsi, idx)
             evaluated == idx >= strategy_params.rsi_period /\ ~IsNaN(current_rsi)
             buys == /\ evaluated /\ ~long
                     /\ RLe(current_rsi, strategy_params.oversold_threshold)
             sells == /\ evaluated /\ long
                      /\ RGe(current_rsi, strategy_params.overbought_threshold)
         IN  IF buys
             THEN <<[action |-> "BUY", date |-> candles[idx + 1].ts]>>
                      \o LevelTriggered(rsi, idx + 1, n, TRUE)
             ELSE IF sells
             THEN <<[action |-> "SELL", date |-> candles[idx + 1].ts]>>
                      \o LevelTriggered(rsi, idx + 1, n, FALSE)
             ELSE LevelTriggered(rsi, idx + 1, n, long)

\* the action and the date of every entry of the ledger
Signals ==
    [k \in 1..Len(trade_history) |->
        [action |-> trade_history[k].action, date |-> trade_history[k].date]]

\* C30: in the RSI simulator, before every step, a flat position has
\* prev_rsi_oversold false and a long position has prev_rsi_overbought
\* false, so the flags suppress no trade: the trades of the finished run are
\* those of the level-triggered variant on the same candles.
C30_RsiFlagsNeverSuppress ==
    (strategy_type = "rsi_oversold" /\ pc \in {"simulate", "assemble"})
        => /\ asset = Zero => ~prev_rsi_oversold
           /\ RGt(asset, Zero) => ~prev_rsi_overbought
           /\ pc = "assemble"
                 => Signals = LevelTriggered(RsiSeries, 0, Len(candles), FALSE)

\* an RSI run that bought and sold, with the RSI at or below the oversold
\* threshold on two evaluated steps in a row, so that prev_rsi_oversold was
\* raised while the position was long
C30_Witness ==
    /\ strategy_type = "rsi_oversold"
    /\ pc = "assemble"
    /\ TradeActions = <<"BUY", "SELL">>
    /\ \E idx \in (strategy_params.rsi_period + 1)..(Len(candles) - 1) :
          /\ RsiEvaluated(idx - 1) /\ RsiEvaluated(idx)
          /\ RLe(At(RsiSeries, idx - 1), strategy_params.oversold_threshold)
          /\ RLe(At(RsiSeries, idx), strategy_params.oversold_threshold)

====
